---- MODULE Spec2Model ----
(***************************************************************************)
(* A model of the Monkey interpreter (matkrin/monkey): the lexer of        *)
(* src/lexer.rs run over a source text, the Pratt parser of                *)
(* monkey/src/parser.rs run over the token stream the lexer hands it, and  *)
(* the tree-walking evaluator of monkey/src/evaluator.rs run against the   *)
(* shared environments of src/object.rs.                                   *)
(*                                                                         *)
(* Tokens, AST nodes and runtime objects are tuples whose first element is *)
(* the variant's name, so that two values of different variants differ in  *)
(* their first element.                                                    *)
(***************************************************************************)
EXTENDS Integers, Sequences, FiniteSets, TLC

VARIABLES
    tokens,     \* the token stream of the source being parsed (lexer output, EOF left implicit)
    ps,         \* the parser: [p: index of current_token, dr: errors swallowed so far]
    program,    \* parse_program's `program`
    errors,     \* parse_program's `errors`
    pstatus,    \* "parsing" | "done" | "panicked"
    starts,     \* token index at which each statement of `program` began
    errStarts,  \* token index at which each statement that ended in a diagnostic began
    family,     \* how the source was drawn: "expr", "suffix" (well-formed expressions) or "any"
    heap,       \* the Environments allocated so far; heap[1] is the REPL's environment
    result,     \* what the last eval call returned: [st, v]
    line,       \* the Program handed to the last eval call
    prevHeap,   \* heap as it was when the last eval call began
    prevStatus, \* how the eval call before the last one ended: the st of its result
    nlines,     \* number of eval calls made on the REPL's environment
    overflowChecks, \* whether the build traps on integer overflow (debug) or wraps (release)
    input,      \* the Lexer's `input`, as its sequence of characters
    lexer,      \* the Lexer's cursor: [position, read_position, ch]
    token,      \* the Token the last next_token call returned
    lstatus,    \* "idle" | "ready" | "returned" | "panicked" | "scanning" (still inside read_string)
    buffer,     \* the LineEditor's `buffer`, as its sequence of characters
    cursor,     \* the LineEditor's `cursor`
    estatus,    \* "idle" | "ready" | "panicked": the LineEditor, and whether an operation panicked
    operation   \* the LineEditor operation that ran last

parserVars == <<tokens, ps, program, errors, pstatus, starts, errStarts, family>>
evalVars == <<heap, result, line, prevHeap, prevStatus, nlines, overflowChecks>>
lexVars == <<input, lexer, token, lstatus>>
editVars == <<buffer, cursor, estatus, operation>>
vars == <<parserVars, evalVars, lexVars, editVars>>

----------------------------------------------------------------------------
(* Tokens: token.rs TokenKind, written <<kind>> or <<kind, literal>>.      *)

T(kind) == <<kind>>
Ident(name) == <<"Ident", name>>
IntTok(text) == <<"Int", text>>
StrTok(text) == <<"String", text>>
Eof == <<"Eof">>

Kind(tok) == tok[1]

\* impl fmt::Display for TokenKind
TokenDisplay(tok) ==
    CASE Kind(tok) \in {"Ident", "Int", "String"} -> tok[2]
      [] Kind(tok) = "Illegal" -> "Illegal"
      [] Kind(tok) = "Eof" -> "Eof"
      [] Kind(tok) = "Assign" -> "="
      [] Kind(tok) = "Plus" -> "+"
      [] Kind(tok) = "Minus" -> "-"
      [] Kind(tok) = "Bang" -> "!"
      [] Kind(tok) = "Asterisk" -> "*"
      [] Kind(tok) = "Slash" -> "/"
      [] Kind(tok) = "LessThan" -> "<"
      [] Kind(tok) = "GreaterThan" -> ">"
      [] Kind(tok) = "Equal" -> "=="
      [] Kind(tok) = "NotEqual" -> "!="
      [] Kind(tok) = "Comma" -> ","
      [] Kind(tok) = "Semicolon" -> ";"
      [] Kind(tok) = "Colon" -> ":"
      [] Kind(tok) = "LParen" -> "("
      [] Kind(tok) = "RParen" -> ")"
      [] Kind(tok) = "LBrace" -> "{"
      [] Kind(tok) = "RBrace" -> "}"
      [] Kind(tok) = "LBracket" -> "["
      [] Kind(tok) = "RBracket" -> "]"
      [] Kind(tok) = "Function" -> "fn"
      [] Kind(tok) = "Let" -> "let"
      [] Kind(tok) = "True" -> "true"
      [] Kind(tok) = "False" -> "false"
      [] Kind(tok) = "If" -> "if"
      [] Kind(tok) = "Else" -> "else"
      [] Kind(tok) = "Return" -> "return"

\* Lexer::next_token as the parser sees it: the i-th token of the source, and
\* Eof for every call after the last token.
LexerToken(toks, i) == IF i <= Len(toks) THEN toks[i] ELSE Eof

----------------------------------------------------------------------------
(* Integer literals. A digit run is kept as its text; Digits gives the     *)
(* decimal digits of the texts the model uses.                             *)

BigDigits == "9223372036854775808"

Digits(text) ==
    CASE text = "0" -> <<0>>
      [] text = "1" -> <<1>>
      [] text = "2" -> <<2>>
      [] text = "3" -> <<3>>
      [] text = "4" -> <<4>>
      [] text = "5" -> <<5>>
      [] text = "10" -> <<1, 0>>
      [] text = "007" -> <<0, 0, 7>>
      [] text = BigDigits -> <<9,2,2,3,3,7,2,0,3,6,8,5,4,7,7,5,8,0,8>>

\* isize::MAX on a 64-bit target, 9223372036854775807, digit by digit
IsizeMaxDigits == <<9,2,2,3,3,7,2,0,3,6,8,5,4,7,7,5,8,0,7>>

RECURSIVE StripZeros(_)
StripZeros(ds) ==
    IF Len(ds) > 1 /\ ds[1] = 0 THEN StripZeros(Tail(ds)) ELSE ds

RECURSIVE DigitsGreater(_, _)
DigitsGreater(a, b) ==
    IF a = <<>> THEN FALSE
    ELSE IF a[1] # b[1] THEN a[1] > b[1]
    ELSE DigitsGreater(Tail(a), Tail(b))

RECURSIVE DigitsValue(_, _)
DigitsValue(ds, acc) ==
    IF ds = <<>> THEN acc ELSE DigitsValue(Tail(ds), 10 * acc + ds[1])

\* str::parse::<isize>: Err when the value does not fit
IntParseFails(text) ==
    LET ds == StripZeros(Digits(text))
    IN Len(ds) > Len(IsizeMaxDigits)
       \/ (Len(ds) = Len(IsizeMaxDigits) /\ DigitsGreater(ds, IsizeMaxDigits))

IntParse(text) == DigitsValue(Digits(text), 0)

----------------------------------------------------------------------------
(* Precedence (parser.rs enum Precedence, ordered by derive(PartialOrd)).  *)

Lowest == 0
Equals == 1
LessGreater == 2
Sum == 3
Product == 4
Prefix == 5
Call == 6
Index == 7

\* a precedence table in which ( and [ bind no tighter than * and /
PrecedenceNoSuffix(tok) ==
    CASE Kind(tok) \in {"Equal", "NotEqual"} -> Equals
      [] Kind(tok) \in {"LessThan", "GreaterThan"} -> LessGreater
      [] Kind(tok) \in {"Plus", "Minus"} -> Sum
      [] Kind(tok) \in {"Slash", "Asterisk"} -> Product
      [] Kind(tok) = "LParen" -> Product
      [] Kind(tok) = "LBracket" -> Product
      [] OTHER -> Lowest

\* impl From<&Token> for Precedence
PrecedenceOf(tok) ==
    CASE Kind(tok) \in {"Equal", "NotEqual"} -> Equals
      [] Kind(tok) \in {"LessThan", "GreaterThan"} -> LessGreater
      [] Kind(tok) \in {"Plus", "Minus"} -> Sum
      [] Kind(tok) \in {"Slash", "Asterisk"} -> Product
      [] Kind(tok) = "LParen" -> Call
      [] Kind(tok) = "LBracket" -> Index
      [] OTHER -> Lowest

InfixKinds ==
    {"Plus", "Minus", "Slash", "Asterisk", "Equal", "NotEqual", "LessThan", "GreaterThan"}

----------------------------------------------------------------------------
(* The parser. A parser state s is [p, dr]: current_token is token p of    *)
(* the source, peek_token is token p + 1, and dr counts the Err results    *)
(* that an `if let Ok(..)` discarded. A parse function returns             *)
(* [st, v, s]: st = "ok" with the node v, st = "err" with the diagnostic   *)
(* v = <<message, has a labelled span, has a help text>>, or st = "panic"  *)
(* when the function aborted the process.                                  *)

CurrentToken(toks, s) == LexerToken(toks, s.p)
PeekToken(toks, s) == LexerToken(toks, s.p + 1)
CurKind(toks, s) == Kind(CurrentToken(toks, s))
PeekKind(toks, s) == Kind(PeekToken(toks, s))

\* Parser::next_token
NextToken(s) == [s EXCEPT !.p = @ + 1]

Dropped(s) == [s EXCEPT !.dr = @ + 1]

POk(v, s) == [st |-> "ok", v |-> v, s |-> s]
PErr(msg, span, help, s) == [st |-> "err", v |-> <<msg, span, help>>, s |-> s]
PPanic(s) == [st |-> "panic", v |-> <<"Failed parsing Token::Int(i)">>, s |-> s]

NoAlt == <<"None">>
SomeAlt(block) == <<"Some", block>>

\* Every nested self.parse_expression(..) and self.parse_statement() call goes
\* through Parse, the one operator the parse functions recur through.
RECURSIVE Parse(_, _, _, _)
parse_expression(toks, s, precedence) == Parse("parse_expression", toks, s, precedence)
parse_statement(toks, s) == Parse("parse_statement", toks, s, 0)

RECURSIVE ParseInfixLoop(_, _, _, _)
RECURSIVE ParseBlockLoop(_, _, _)
RECURSIVE ParseListLoop(_, _, _, _)
RECURSIVE ParseHashLoop(_, _, _)

\* parse_block_statement's while loop
ParseBlockLoop(toks, s, block) ==
    IF CurKind(toks, s) # "RBrace" /\ CurKind(toks, s) # "Eof"
    THEN LET r == parse_statement(toks, s)
         IN IF r.st = "panic" THEN r
            ELSE IF r.st = "ok"
                 THEN ParseBlockLoop(toks, NextToken(r.s), Append(block, r.v))
                 ELSE ParseBlockLoop(toks, NextToken(Dropped(r.s)), block)
    ELSE POk(block, s)

ParseBlockStatement(toks, s) == ParseBlockLoop(toks, NextToken(s), <<>>)

ParseParamLoop(toks, s0, ids0) ==
    LET RECURSIVE Loop(_, _)
        Loop(s, ids) ==
            IF PeekKind(toks, s) = "Comma"
            THEN LET s2 == NextToken(NextToken(s))
                 IN Loop(s2, Append(ids, TokenDisplay(CurrentToken(toks, s2))))
            ELSE [s |-> s, ids |-> ids]
    IN Loop(s0, ids0)

ParseFunctionParameters(toks, s) ==
    IF PeekKind(toks, s) = "RParen"
    THEN POk(<<>>, NextToken(s))
    ELSE LET s1 == NextToken(s)
             l == ParseParamLoop(toks, s1, <<TokenDisplay(CurrentToken(toks, s1))>>)
         IN IF PeekKind(toks, l.s) # "RParen"
            THEN PErr("Expected RParen", FALSE, FALSE, l.s)
            ELSE POk(l.ids, NextToken(l.s))

ParseFunctionLiteral(toks, s) ==
    IF PeekKind(toks, s) # "LParen"
    THEN PErr("Expeced LParen after fn", FALSE, FALSE, s)
    ELSE LET ps1 == ParseFunctionParameters(toks, NextToken(s))
         IN IF ps1.st # "ok" THEN ps1
            ELSE IF PeekKind(toks, ps1.s) # "LBrace"
            THEN PErr("Expeced LBrace after parameter list", FALSE, FALSE, ps1.s)
            ELSE LET b == ParseBlockStatement(toks, NextToken(ps1.s))
                 IN IF b.st # "ok" THEN b
                    ELSE POk(<<"Fn", ps1.v, b.v>>, b.s)

ParseIfExpression(toks, s) ==
    IF PeekKind(toks, s) # "LParen"
    THEN PErr("Expected (", TRUE, TRUE, s)
    ELSE LET c == parse_expression(toks, NextToken(NextToken(s)), Lowest)
         IN IF c.st # "ok" THEN c
            ELSE IF PeekKind(toks, c.s) # "RParen"
            THEN PErr("Expected )", TRUE, TRUE, c.s)
            ELSE LET s1 == NextToken(c.s)
                 IN IF PeekKind(toks, s1) # "LBrace"
                    THEN PErr("Expected Left Brace at beginning of block", FALSE, FALSE, s1)
                    ELSE LET cons == ParseBlockStatement(toks, NextToken(s1))
                         IN IF cons.st # "ok" THEN cons
                            ELSE IF PeekKind(toks, cons.s) = "Else"
                            THEN LET s2 == NextToken(cons.s)
                                 IN IF PeekKind(toks, s2) # "LBrace"
                                    THEN PErr("Expected Left Brace after else", FALSE, FALSE, s2)
                                    ELSE LET alt == ParseBlockStatement(toks, NextToken(s2))
                                         IN IF alt.st = "panic" THEN alt
                                            ELSE IF alt.st = "ok"
                                            THEN POk(<<"If", c.v, cons.v, SomeAlt(alt.v)>>, alt.s)
                                            ELSE POk(<<"If", c.v, cons.v, NoAlt>>, Dropped(alt.s))
                            ELSE POk(<<"If", c.v, cons.v, NoAlt>>, cons.s)

ParseGroupedExpression(toks, s) ==
    LET e == parse_expression(toks, NextToken(s), Lowest)
    IN IF e.st = "panic" THEN e
       ELSE IF PeekKind(toks, e.s) # "RParen"
       THEN PErr("Expected )", TRUE, TRUE, e.s)
       ELSE [e EXCEPT !.s = NextToken(e.s)]

ParsePrefixExpression(toks, s) ==
    LET right == parse_expression(toks, NextToken(s), Prefix)
    IN IF right.st # "ok" THEN right
       ELSE POk(<<"Prefix", TokenDisplay(CurrentToken(toks, s)), right.v>>, right.s)

ParseInfixExpression(toks, s, left) ==
    LET right == parse_expression(toks, NextToken(s), PrecedenceOf(CurrentToken(toks, s)))
    IN IF right.st # "ok" THEN right
       ELSE POk(<<"Infix", TokenDisplay(CurrentToken(toks, s)), left, right.v>>, right.s)

\* parse_expression_list's `while self.peek_token.kind == TokenKind::Comma`
ParseListLoop(toks, s, end, list) ==
    IF PeekKind(toks, s) = "Comma"
    THEN LET e == parse_expression(toks, NextToken(NextToken(s)), Lowest)
         IN IF e.st # "ok" THEN e
            ELSE ParseListLoop(toks, e.s, end, Append(list, e.v))
    ELSE IF PeekKind(toks, s) # end
    THEN PErr("Expected end of list", FALSE, FALSE, s)
    ELSE POk(list, NextToken(s))

ParseExpressionList(toks, s, end) ==
    IF PeekKind(toks, s) = end
    THEN POk(<<>>, NextToken(s))
    ELSE LET e == parse_expression(toks, NextToken(s), Lowest)
         IN IF e.st # "ok" THEN e
            ELSE ParseListLoop(toks, e.s, end, <<e.v>>)

ParseCallExpression(toks, s, function) ==
    LET args == ParseExpressionList(toks, s, "RParen")
    IN IF args.st # "ok" THEN args
       ELSE POk(<<"Call", function, args.v>>, args.s)

ParseIndexExpression(toks, s, left) ==
    LET index == parse_expression(toks, NextToken(s), Lowest)
    IN IF index.st # "ok" THEN index
       ELSE IF PeekKind(toks, index.s) # "RBracket"
       THEN PErr("Expected RBracket", FALSE, FALSE, index.s)
       ELSE POk(<<"Index", left, index.v>>, NextToken(index.s))

\* parse_hash_literal's `while self.peek_token.kind != TokenKind::RBrace`
ParseHashLoop(toks, s, pairs) ==
    IF PeekKind(toks, s) # "RBrace"
    THEN LET key == parse_expression(toks, NextToken(s), Lowest)
         IN IF key.st # "ok" THEN key
            ELSE IF PeekKind(toks, key.s) # "Colon"
            THEN PErr("Expected Colon", FALSE, FALSE, key.s)
            ELSE LET value == parse_expression(toks, NextToken(NextToken(key.s)), Lowest)
                 IN IF value.st # "ok" THEN value
                    ELSE IF PeekKind(toks, value.s) \notin {"RBrace", "Comma"}
                    THEN PErr("Expected RBrace or Comma", FALSE, FALSE, value.s)
                    ELSE ParseHashLoop(toks,
                            IF PeekKind(toks, value.s) = "Comma"
                            THEN NextToken(value.s) ELSE value.s,
                            Append(pairs, <<key.v, value.v>>))
    ELSE POk(<<"Hash", pairs>>, NextToken(s))

ParseHashLiteral(toks, s) == ParseHashLoop(toks, s, <<>>)

\* parse_expression's `match &self.current_token.kind`
ParsePrefixPosition(toks, s) ==
    LET tok == CurrentToken(toks, s)
        k == Kind(tok)
    IN CASE k = "Ident" -> POk(<<"Ident", tok[2]>>, s)
         [] k = "Int" -> IF IntParseFails(tok[2]) THEN PPanic(s)
                         ELSE POk(<<"Int", IntParse(tok[2])>>, s)
         [] k = "True" -> POk(<<"Bool", TRUE>>, s)
         [] k = "False" -> POk(<<"Bool", FALSE>>, s)
         [] k = "LParen" -> ParseGroupedExpression(toks, s)
         [] k = "If" -> ParseIfExpression(toks, s)
         [] k = "Function" -> ParseFunctionLiteral(toks, s)
         [] k \in {"Minus", "Bang"} -> ParsePrefixExpression(toks, s)
         [] k = "String" -> POk(<<"Str", tok[2]>>, s)
         [] k = "LBracket" ->
                LET l == ParseExpressionList(toks, s, "RBracket")
                IN IF l.st # "ok" THEN l ELSE POk(<<"Array", l.v>>, l.s)
         [] k = "LBrace" -> ParseHashLiteral(toks, s)
         [] OTHER -> PErr("Unexpected Token", FALSE, FALSE, s)

\* the loop condition of parse_expression
\* a loop condition under which equal precedence groups to the right
ContinuesRightAssoc(toks, s, precedence) ==
    PeekKind(toks, s) # "Semicolon" /\ precedence <= PrecedenceOf(PeekToken(toks, s))

Continues(toks, s, precedence) ==
    PeekKind(toks, s) # "Semicolon" /\ precedence < PrecedenceOf(PeekToken(toks, s))

\* parse_expression's while loop; an Err from the infix, call or index
\* parser is discarded and left_exp kept
ParseInfixLoop(toks, s, precedence, left) ==
    IF Continues(toks, s, precedence)
    THEN LET s1 == NextToken(s)
             k == CurKind(toks, s1)
             r == CASE k \in InfixKinds -> ParseInfixExpression(toks, s1, left)
                    [] k = "LParen" -> ParseCallExpression(toks, s1, left)
                    [] k = "LBracket" -> ParseIndexExpression(toks, s1, left)
                    [] OTHER -> POk(left, s1)
         IN IF k \notin InfixKinds \cup {"LParen", "LBracket"} THEN r
            ELSE IF r.st = "panic" THEN r
            ELSE IF r.st = "ok" THEN ParseInfixLoop(toks, r.s, precedence, r.v)
            ELSE ParseInfixLoop(toks, Dropped(r.s), precedence, left)
    ELSE POk(left, s)

ParseExpression(toks, s, precedence) ==
    LET left == ParsePrefixPosition(toks, s)
    IN IF left.st # "ok" THEN left
       ELSE ParseInfixLoop(toks, left.s, precedence, left.v)

SkipSemicolon(toks, s) ==
    IF PeekKind(toks, s) = "Semicolon" THEN NextToken(s) ELSE s

ParseLetStatement(toks, s) ==
    LET s1 == NextToken(s)
    IN IF CurKind(toks, s1) # "Ident"
       THEN PErr("Expected Ident", FALSE, FALSE, s1)
       ELSE IF PeekKind(toks, s1) # "Assign"
       THEN PErr("Expected Assignment", TRUE, TRUE, s1)
       ELSE LET value == parse_expression(toks, NextToken(NextToken(s1)), Lowest)
            IN IF value.st # "ok" THEN value
               ELSE POk(<<"Let", CurrentToken(toks, s1)[2], value.v>>,
                        SkipSemicolon(toks, value.s))

ParseReturnStatement(toks, s) ==
    LET value == parse_expression(toks, NextToken(s), Lowest)
    IN IF value.st # "ok" THEN value
       ELSE POk(<<"Return", value.v>>, SkipSemicolon(toks, value.s))

ParseExpressionStatement(toks, s) ==
    LET e == parse_expression(toks, s, Lowest)
    IN IF e.st # "ok" THEN e
       ELSE POk(<<"Expr", e.v>>, SkipSemicolon(toks, e.s))

ParseStatement(toks, s) ==
    CASE CurKind(toks, s) = "Let" -> ParseLetStatement(toks, s)
      [] CurKind(toks, s) = "Return" -> ParseReturnStatement(toks, s)
      [] OTHER -> ParseExpressionStatement(toks, s)

Parse(function, toks, s, precedence) ==
    IF function = "parse_expression" THEN ParseExpression(toks, s, precedence)
    ELSE ParseStatement(toks, s)

----------------------------------------------------------------------------
(* Rendering of the AST (ast.rs, impl fmt::Display).                       *)

RECURSIVE DisplayExpression(_)
RECURSIVE DisplayProgram(_)
RECURSIVE JoinStrings(_, _)

JoinStrings(strs, sep) ==
    IF strs = <<>> THEN ""
    ELSE IF Len(strs) = 1 THEN strs[1]
    ELSE strs[1] \o sep \o JoinStrings(Tail(strs), sep)

DisplayStatement(stmt) ==
    CASE stmt[1] = "Let" -> "let " \o stmt[2] \o " = " \o DisplayExpression(stmt[3]) \o ";"
      [] stmt[1] = "Return" -> "return " \o DisplayExpression(stmt[2]) \o ";"
      [] stmt[1] = "Expr" -> DisplayExpression(stmt[2])

DisplayProgram(stmts) ==
    IF stmts = <<>> THEN ""
    ELSE DisplayStatement(stmts[1]) \o DisplayProgram(Tail(stmts))

DisplayExpression(e) ==
    CASE e[1] = "Ident" -> e[2]
      [] e[1] = "Int" -> ToString(e[2])
      [] e[1] = "Prefix" -> "(" \o e[2] \o DisplayExpression(e[3]) \o ")"
      [] e[1] = "Infix" ->
            "(" \o DisplayExpression(e[3]) \o " " \o e[2] \o " " \o DisplayExpression(e[4]) \o ")"
      [] e[1] = "Bool" -> IF e[2] THEN "true" ELSE "false"
      [] e[1] = "If" ->
            "if" \o DisplayExpression(e[2]) \o " " \o DisplayProgram(e[3]) \o " "
            \o (IF e[4] = NoAlt THEN "" ELSE "else " \o DisplayProgram(e[4][2]))
      [] e[1] = "Fn" -> "(" \o JoinStrings(e[2], ", ") \o ")" \o DisplayProgram(e[3])
      [] e[1] = "Call" ->
            DisplayExpression(e[2]) \o "("
            \o JoinStrings([i \in 1..Len(e[3]) |-> DisplayExpression(e[3][i])], ", ") \o ")"
      [] e[1] = "Str" -> e[2]
      [] e[1] = "Array" ->
            "[" \o JoinStrings([i \in 1..Len(e[2]) |-> DisplayExpression(e[2][i])], ", ") \o "]"
      [] e[1] = "Index" ->
            "(" \o DisplayExpression(e[2]) \o "[" \o DisplayExpression(e[3]) \o "])"
      [] e[1] = "Hash" ->
            "{" \o JoinStrings([i \in 1..Len(e[2]) |->
                    DisplayExpression(e[2][i][1]) \o ":" \o DisplayExpression(e[2][i][2])], ", ")
            \o "}"

----------------------------------------------------------------------------
(* parse_program, one iteration of its while loop per step.                *)

NewParser(toks) ==
    /\ tokens = toks
    /\ ps = [p |-> 1, dr |-> 0]
    /\ program = <<>>
    /\ errors = <<>>
    /\ pstatus = "parsing"
    /\ starts = <<>>
    /\ errStarts = <<>>

ParseStatementOk ==
    /\ pstatus = "parsing"
    /\ CurKind(tokens, ps) # "Eof"
    /\ LET r == parse_statement(tokens, ps)
       IN /\ r.st = "ok"
          /\ program' = Append(program, r.v)
          /\ starts' = Append(starts, ps.p)
          /\ ps' = NextToken(r.s)
    /\ UNCHANGED <<tokens, errors, pstatus, errStarts, family, evalVars, lexVars, editVars>>

ParseStatementErr ==
    /\ pstatus = "parsing"
    /\ CurKind(tokens, ps) # "Eof"
    /\ LET r == parse_statement(tokens, ps)
       IN /\ r.st = "err"
          /\ errors' = Append(errors, r.v)
          /\ errStarts' = Append(errStarts, ps.p)
          /\ ps' = NextToken(r.s)
    /\ UNCHANGED <<tokens, program, pstatus, starts, family, evalVars, lexVars, editVars>>

ParseStatementPanic ==
    /\ pstatus = "parsing"
    /\ CurKind(tokens, ps) # "Eof"
    /\ parse_statement(tokens, ps).st = "panic"
    /\ pstatus' = "panicked"
    /\ UNCHANGED <<tokens, ps, program, errors, starts, errStarts, family, evalVars, lexVars, editVars>>

ParseProgramReturn ==
    /\ pstatus = "parsing"
    /\ CurKind(tokens, ps) = "Eof"
    /\ pstatus' = "done"
    /\ UNCHANGED <<tokens, ps, program, errors, starts, errStarts, family, evalVars, lexVars, editVars>>

----------------------------------------------------------------------------
(* The sources handed to the parser.                                       *)
(*                                                                         *)
(* Family "expr"/"suffix": one well-formed expression of up to MaxOperands *)
(* operands joined by any binary operators, with at most one prefix        *)
(* operator and either one parenthesised group or one call or index        *)
(* suffix.                                                                 *)
(* Family "any": a few programs with one token replaced, removed or        *)
(* everything after it cut off, and every token string of up to MaxShort   *)
(* tokens.                                                                 *)

MaxOperands == 3
MaxShort == 2

Operand(k) ==
    CASE k = 1 -> Ident("a")
      [] k = 2 -> Ident("b")
      [] k = 3 -> Ident("c")
      [] k = 4 -> IntTok("5")
      [] OTHER -> T("True")

SuffixTokens(form) ==
    CASE form = "call" ->
            <<T("LParen"), Ident("x"), T("Comma"), Ident("y"), T("Asterisk"), Ident("z"),
              T("RParen")>>
      [] form = "index" -> <<T("LBracket"), Ident("x"), T("Plus"), Ident("y"), T("RBracket")>>
      [] OTHER -> <<>>

Decorations(n) ==
    { d \in [ pre : {<<0, "">>} \cup ((1..n) \X {"Minus", "Bang"}),
              grp : {<<0, 0>>} \cup {ij \in (1..n) \X (1..n) : ij[1] < ij[2]},
              suf : {<<0, "">>} \cup ((1..n) \X {"call", "index"}) ] :
        d.suf[1] # 0 => d.grp[1] = 0 }

ExprShape(n, ops, d) == [n |-> n, ops |-> ops, pre |-> d.pre, grp |-> d.grp, suf |-> d.suf]

ShapePiece(sh, k) ==
    (IF sh.pre[1] = k THEN <<T(sh.pre[2])>> ELSE <<>>)
    \o (IF sh.grp[1] = k THEN <<T("LParen")>> ELSE <<>>)
    \o <<Operand(k)>>
    \o (IF sh.suf[1] = k THEN SuffixTokens(sh.suf[2]) ELSE <<>>)
    \o (IF sh.grp[2] = k THEN <<T("RParen")>> ELSE <<>>)

RECURSIVE ShapeTokensFrom(_, _)
ShapeTokensFrom(sh, k) ==
    IF k = sh.n THEN ShapePiece(sh, k)
    ELSE ShapePiece(sh, k) \o <<T(sh.ops[k])>> \o ShapeTokensFrom(sh, k + 1)

ShapeTokens(sh) == ShapeTokensFrom(sh, 1)

BasePrograms ==
    { <<T("Let"), Ident("x"), T("Assign"), IntTok("5"), T("Semicolon"),
        Ident("x"), T("Plus"), IntTok("007"), T("Semicolon")>>,
      <<T("If"), T("LParen"), Ident("x"), T("RParen"), T("LBrace"), T("Return"), IntTok("1"),
        T("Semicolon"), T("RBrace"), T("Else"), T("LBrace"), Ident("y"), T("RBrace")>>,
      <<T("Function"), T("LParen"), Ident("x"), T("Comma"), Ident("y"), T("RParen"),
        T("LBrace"), Ident("x"), T("Plus"), Ident("y"), T("RBrace"),
        T("LParen"), IntTok("1"), T("Comma"), IntTok("2"), T("RParen")>>,
      <<T("LBrace"), StrTok("k"), T("Colon"), IntTok("1"), T("Comma"), T("True"), T("Colon"),
        Ident("x"), T("RBrace"), T("LBracket"), StrTok("k"), T("RBracket")>>,
      <<T("Return"), T("LBracket"), IntTok("1"), T("Comma"), IntTok("2"), T("RBracket"),
        T("LBracket"), T("Bang"), T("False"), T("RBracket"), T("Semicolon")>> }

Alphabet ==
    { T("Plus"), T("Semicolon"), T("LParen"), T("RParen"), T("LBrace"), T("RBrace"),
      T("RBracket"), T("Comma"), T("Assign"), T("Let"), T("Else"), T("Illegal"),
      Ident("x"), IntTok("5"), IntTok(BigDigits) }

Mutations(b) ==
    { [i \in 1..Len(b) |-> IF i = k THEN t ELSE b[i]] : k \in 1..Len(b), t \in Alphabet }
    \cup { SubSeq(b, 1, k - 1) \o SubSeq(b, k + 1, Len(b)) : k \in 1..Len(b) }
    \cup { SubSeq(b, 1, k) : k \in 1..Len(b) }

AnySources ==
    UNION { Mutations(b) : b \in BasePrograms }
    \cup UNION { [1..n -> Alphabet] : n \in 0..MaxShort }

----------------------------------------------------------------------------
(* The fully parenthesised form of a well-formed expression, read off the  *)
(* token string by the grammar: the expression splits at its last binary   *)
(* operator of lowest binding level outside all brackets; without one, a   *)
(* leading prefix operator applies to all that follows; without that, a    *)
(* trailing (..) or [..] is a call or index on what precedes it.           *)

BindingLevel(kind) ==
    CASE kind \in {"Equal", "NotEqual"} -> 1
      [] kind \in {"LessThan", "GreaterThan"} -> 2
      [] kind \in {"Plus", "Minus"} -> 3
      [] kind \in {"Asterisk", "Slash"} -> 4

DepthBefore(toks, i) ==
    Cardinality({j \in 1..(i - 1) : Kind(toks[j]) \in {"LParen", "LBracket"}})
    - Cardinality({j \in 1..(i - 1) : Kind(toks[j]) \in {"RParen", "RBracket"}})

OperandEnd == {"Ident", "Int", "True", "False", "String", "RParen", "RBracket"}

BinaryPositions(toks) ==
    { i \in 2..(Len(toks) - 1) :
        /\ Kind(toks[i]) \in InfixKinds
        /\ DepthBefore(toks, i) = 0
        /\ Kind(toks[i - 1]) \in OperandEnd }

SplitPosition(toks) ==
    LET B == BinaryPositions(toks)
    IN CHOOSE i \in B :
        \A j \in B :
            \/ BindingLevel(Kind(toks[j])) > BindingLevel(Kind(toks[i]))
            \/ (BindingLevel(Kind(toks[j])) = BindingLevel(Kind(toks[i])) /\ j <= i)

RECURSIVE FullyParenthesized(_)
RECURSIVE ParenthesizedList(_)

ParenthesizedList(toks) ==
    LET commas == {i \in 1..Len(toks) : Kind(toks[i]) = "Comma" /\ DepthBefore(toks, i) = 0}
    IN IF toks = <<>> THEN ""
       ELSE IF commas = {} THEN FullyParenthesized(toks)
       ELSE LET c == CHOOSE i \in commas : \A j \in commas : i <= j
            IN FullyParenthesized(SubSeq(toks, 1, c - 1)) \o ", "
               \o ParenthesizedList(SubSeq(toks, c + 1, Len(toks)))

FullyParenthesized(toks) ==
    IF toks = <<>> THEN "?"
    ELSE IF BinaryPositions(toks) # {}
    THEN LET i == SplitPosition(toks)
         IN "(" \o FullyParenthesized(SubSeq(toks, 1, i - 1)) \o " " \o TokenDisplay(toks[i])
            \o " " \o FullyParenthesized(SubSeq(toks, i + 1, Len(toks))) \o ")"
    ELSE IF Kind(toks[1]) \in {"Minus", "Bang"}
    THEN "(" \o TokenDisplay(toks[1]) \o FullyParenthesized(Tail(toks)) \o ")"
    ELSE IF Len(toks) = 1
    THEN (IF Kind(toks[1]) = "Int" THEN ToString(IntParse(toks[1][2]))
          ELSE TokenDisplay(toks[1]))
    ELSE LET n == Len(toks)
             j == CHOOSE k \in 1..(n - 1) :
                    /\ Kind(toks[k]) \in {"LParen", "LBracket"}
                    /\ DepthBefore(toks, k) = 0
                    /\ \A m \in (k + 1)..(n - 1) :
                          ~(Kind(toks[m]) \in {"LParen", "LBracket"} /\ DepthBefore(toks, m) = 0)
             inner == SubSeq(toks, j + 1, n - 1)
             head == SubSeq(toks, 1, j - 1)
         IN IF j = 1
            THEN (IF Kind(toks[1]) = "LParen" THEN FullyParenthesized(inner)
                  ELSE "[" \o ParenthesizedList(inner) \o "]")
            ELSE IF Kind(toks[j]) = "LParen"
            THEN FullyParenthesized(head) \o "(" \o ParenthesizedList(inner) \o ")"
            ELSE "(" \o FullyParenthesized(head) \o "[" \o FullyParenthesized(inner) \o "])"

----------------------------------------------------------------------------
(* The parser's specification: Parser::new on a source, then parse_program. *)

NoChar == <<"None">>
SomeChar(c) == <<"Some", c>>
NoToken == [kind |-> "None", text |-> <<>>, span |-> [start |-> 0, end |-> 0]]

LexerIdle ==
    /\ input = <<>>
    /\ lexer = [position |-> 0, read_position |-> 0, ch |-> NoChar]
    /\ token = NoToken
    /\ lstatus = "idle"

EditorIdle ==
    /\ buffer = <<>>
    /\ cursor = 0
    /\ estatus = "idle"
    /\ operation = "none"

EvalIdle ==
    /\ heap = <<>>
    /\ result = [st |-> "none", v |-> <<"Null">>]
    /\ line = <<>>
    /\ prevHeap = <<>>
    /\ prevStatus = "none"
    /\ nlines = 0
    /\ overflowChecks = TRUE

InitParse ==
    /\ \/ \E n \in 1..MaxOperands : \E ops \in [1..(n - 1) -> InfixKinds] :
            \E d \in Decorations(n) :
                /\ NewParser(ShapeTokens(ExprShape(n, ops, d)))
                /\ family = IF d.suf[1] = 0 THEN "expr" ELSE "suffix"
       \/ \E src \in AnySources :
            /\ NewParser(src)
            /\ family = "any"
    /\ EvalIdle
    /\ LexerIdle
    /\ EditorIdle

NextParse ==
    \/ ParseStatementOk
    \/ ParseStatementErr
    \/ ParseStatementPanic
    \/ ParseProgramReturn

SpecParse == InitParse /\ [][NextParse]_vars

----------------------------------------------------------------------------
(* Claims about the parser, checked under SpecParse.                       *)

\* C4: for an expression built from operands, the eight binary operators, the
\* prefix operators - and ! and parentheses, parse_program returns one
\* expression statement and no diagnostic, and rendering it gives the fully
\* parenthesised form in which higher precedence binds tighter, equal
\* precedence groups left to right and ( expr ) overrides both.
C4_PrecedenceParse ==
    (family = "expr" /\ pstatus = "done") =>
        /\ errors = <<>>
        /\ Len(program) = 1
        /\ program[1][1] = "Expr"
        /\ DisplayProgram(program) = FullyParenthesized(tokens)

\* a + b * c has been parsed and renders as (a + (b * c))
C4_Witness ==
    /\ pstatus = "done"
    /\ family = "expr"
    /\ tokens = <<Ident("a"), T("Plus"), Ident("b"), T("Asterisk"), Ident("c")>>
    /\ DisplayProgram(program) = "(a + (b * c))"

\* C5: a call or index suffix applies to the operand immediately to its left
\* and binds tighter than every binary and every prefix operator: the parsed
\* expression renders as the fully parenthesised form with the suffix attached
\* to that operand.
C5_SuffixBindsTightest ==
    (family = "suffix" /\ pstatus = "done") =>
        /\ errors = <<>>
        /\ Len(program) = 1
        /\ program[1][1] = "Expr"
        /\ DisplayProgram(program) = FullyParenthesized(tokens)

\* a * -b[x + y] has been parsed and renders as (a * (-(b[(x + y)])))
C5_Witness ==
    /\ pstatus = "done"
    /\ family = "suffix"
    /\ tokens = <<Ident("a"), T("Asterisk"), T("Minus"), Ident("b")>> \o SuffixTokens("index")
    /\ DisplayProgram(program) = "(a * (-(b[(x + y)])))"

\* C6: on every source whose strings are terminated, Parser::new followed by
\* parse_program returns its (Program, diagnostics) pair without aborting; a
\* digit run too large for the integer type is a diagnostic, not a crash.
C6_ParseNeverAborts == pstatus # "panicked"

\* C7: every syntax error found while parsing ends up in the diagnostics that
\* parse_program returns: no Err result is silently dropped.
C7_NoErrorDropped == pstatus = "done" => ps.dr = 0

\* the statement boundary that follows token e: the first semicolon at or
\* after it, or the end of the source
BoundaryAfter(e) ==
    IF \E k \in e..Len(tokens) : Kind(tokens[k]) = "Semicolon"
    THEN CHOOSE k \in e..Len(tokens) :
            /\ Kind(tokens[k]) = "Semicolon"
            /\ \A m \in e..(k - 1) : Kind(tokens[m]) # "Semicolon"
    ELSE Len(tokens) + 1

\* C8: after a diagnostic for a malformed statement the parser discards tokens
\* up to the next statement boundary: no statement of the Program begins at a
\* token between the start of a malformed statement and that boundary.
C8_Resynchronizes ==
    \A i \in 1..Len(errStarts) : \A j \in 1..Len(starts) :
        ~(errStarts[i] < starts[j] /\ starts[j] <= BoundaryAfter(errStarts[i]))

\* C24: every diagnostic parse_program returns has a labelled span and a
\* help text.
C24_DiagnosticsCarrySpanAndHint ==
    \A i \in 1..Len(errors) : errors[i][2] /\ errors[i][3]

\* the If and FunctionLiteral nodes of a block (what = "block"), a statement
\* or an expression
RECURSIVE BlockNodes(_, _)
BlockNodes(what, node) ==
    CASE what = "block" -> UNION { BlockNodes("stmt", node[i]) : i \in 1..Len(node) }
      [] what = "stmt" /\ node[1] = "Let" -> BlockNodes("expr", node[3])
      [] what = "stmt" /\ node[1] \in {"Return", "Expr"} -> BlockNodes("expr", node[2])
      [] what = "expr" /\ node[1] = "Prefix" -> BlockNodes("expr", node[3])
      [] what = "expr" /\ node[1] = "Infix" ->
            BlockNodes("expr", node[3]) \cup BlockNodes("expr", node[4])
      [] what = "expr" /\ node[1] = "If" ->
            {node} \cup BlockNodes("expr", node[2]) \cup BlockNodes("block", node[3])
            \cup (IF node[4] = NoAlt THEN {} ELSE BlockNodes("block", node[4][2]))
      [] what = "expr" /\ node[1] = "Fn" -> {node} \cup BlockNodes("block", node[3])
      [] what = "expr" /\ node[1] = "Call" ->
            BlockNodes("expr", node[2])
            \cup UNION { BlockNodes("expr", node[3][i]) : i \in 1..Len(node[3]) }
      [] what = "expr" /\ node[1] = "Array" ->
            UNION { BlockNodes("expr", node[2][i]) : i \in 1..Len(node[2]) }
      [] what = "expr" /\ node[1] = "Index" ->
            BlockNodes("expr", node[2]) \cup BlockNodes("expr", node[3])
      [] what = "expr" /\ node[1] = "Hash" ->
            UNION { BlockNodes("expr", node[2][i][1]) \cup BlockNodes("expr", node[2][i][2]) :
                        i \in 1..Len(node[2]) }
      [] OTHER -> {}

\* the number of tokens of a kind
CountKind(toks, kind) == Cardinality({i \in 1..Len(toks) : Kind(toks[i]) = kind})

\* the source has an if or a fn, and an opening brace without its closing
\* brace or a closing brace without its opening brace
BlockBraceMissing(toks) ==
    /\ \E i \in 1..Len(toks) : Kind(toks[i]) \in {"If", "Function"}
    /\ CountKind(toks, "LBrace") # CountKind(toks, "RBrace")

\* C26: an if or fn whose block lacks its opening or its closing brace gives
\* a diagnostic: parse_program does not return an If or a FunctionLiteral in
\* the Program together with no diagnostics.
C26_UnclosedBlockIsDiagnosed ==
    (pstatus = "done" /\ BlockBraceMissing(tokens)) =>
        ~(BlockNodes("block", program) # {} /\ errors = <<>>)

\* the texts of the identifier tokens of the source
IdentifierTexts(toks) == { toks[i][2] : i \in {j \in 1..Len(toks) : Kind(toks[j]) = "Ident"} }

\* C27: every parameter of a FunctionLiteral of the Program is the text of
\* an identifier token; a parameter list that holds another token gives a
\* diagnostic and no FunctionLiteral.
C27_ParametersAreIdentifiers ==
    \A f \in BlockNodes("block", program) :
        f[1] = "Fn" => \A i \in 1..Len(f[2]) : f[2][i] \in IdentifierTexts(tokens)

----------------------------------------------------------------------------
(* Objects: object.rs Object, written <<variant, fields..>>.  A Function   *)
(* holds the index in `heap` of the Environment it closes over, the        *)
(* Rc<RefCell<Environment>> of the code.                                   *)

Integer(i) == <<"Integer", i>>
Boolean(b) == <<"Boolean", b>>
Null == <<"Null">>
ReturnValue(obj) == <<"ReturnValue", obj>>
Function(parameters, body, env) == <<"Function", parameters, body, env>>
String(s) == <<"String", s>>
Builtin(name) == <<"Builtin", name>>
Array(v) == <<"Array", v>>
Hash(map) == <<"Hash", map>>

Type(obj) ==
    CASE obj[1] = "Integer" -> "INTEGER"
      [] obj[1] = "Boolean" -> "BOOLEAN"
      [] obj[1] = "Null" -> "NULL"
      [] obj[1] = "ReturnValue" -> "RETURN_VALUE"
      [] obj[1] = "Function" -> "FUNCTION"
      [] obj[1] = "String" -> "STRING"
      [] obj[1] = "Builtin" -> "BUITLIN"
      [] obj[1] = "Array" -> "ARRAY"
      [] obj[1] = "Hash" -> "HASH"

\* an is_hashable that lets every object through
IsHashableAny(obj) == TRUE

IsHashable(obj) == obj[1] \in {"Integer", "Boolean", "String"}

\* impl hash::Hash for Object: the variants whose hash panics
HashPanics(obj) == obj[1] \notin {"Integer", "Boolean", "String"}

HashPanicMessage == "Only Integers, Booleans and Strings are allowed as keys in a map"

\* an evaluation error: the miette report's message, and the object the
\* message formats with its Display where it has one
Error(message) == <<"Error", message>>
ErrorWith(message, obj) == <<"Error", message, obj>>

(* Environments: object.rs Environment.  `outer` is 0 for None.            *)

EmptyStore == [name \in {} |-> Null]

\* `borrow` is the flag of the RefCell the Environment lives in: 0 when
\* nobody borrows it, n > 0 for n shared borrows, -1 for a mutable borrow
EnvironmentNew == [store |-> EmptyStore, outer |-> 0, borrow |-> 0]

\* an enclosed environment that does not keep its parent
NewEnclosedDetached(outer) == [store |-> EmptyStore, outer |-> 0, borrow |-> 0]

NewEnclosed(outer) == [store |-> EmptyStore, outer |-> outer, borrow |-> 0]

RECURSIVE Get(_, _, _)
Get(h, env, name) ==
    IF name \in DOMAIN h[env].store THEN <<"Some", h[env].store[name]>>
    ELSE IF h[env].outer # 0 THEN Get(h, h[env].outer, name)
    ELSE <<"None">>

RECURSIVE GetBorrowPanics(_, _, _)
\* RefCell::borrow refuses a cell that is mutably borrowed: the Ident arm
\* borrows `env`, and Environment::get borrows each outer environment it has
\* to ask
GetBorrowPanics(h, env, name) ==
    \/ h[env].borrow < 0
    \/ /\ name \notin DOMAIN h[env].store
       /\ h[env].outer # 0
       /\ GetBorrowPanics(h, h[env].outer, name)

\* RefCell::borrow_mut refuses a cell that is borrowed in any way
BorrowMutPanics(h, env) == h[env].borrow # 0

AlreadyBorrowed == "already borrowed: BorrowMutError"
AlreadyMutablyBorrowed == "already mutably borrowed: BorrowError"

StoreInsert(store, name, val) ==
    [n \in DOMAIN store \cup {name} |-> IF n = name THEN val ELSE store[n]]

RECURSIVE Binder(_, _, _)
\* the nearest environment from `env` outwards that binds `name`, 0 if none
Binder(h, env, name) ==
    IF name \in DOMAIN h[env].store THEN env
    ELSE IF h[env].outer # 0 THEN Binder(h, h[env].outer, name)
    ELSE 0

\* a set that assigns to the binding in scope where there is one
SetThrough(h, env, name, val) ==
    LET target == IF Binder(h, env, name) # 0 THEN Binder(h, env, name) ELSE env
    IN [h EXCEPT ![target].store = StoreInsert(@, name, val)]

Set(h, env, name, val) == [h EXCEPT ![env].store = StoreInsert(@, name, val)]

(* What an evaluator function hands back: Ok(object) or Err(report), or    *)
(* the abort of the process by a panic or by exhausting the native stack;  *)
(* with it, the environments as the call left them.                        *)

EOk(obj, h) == [st |-> "ok", v |-> obj, h |-> h]
EErr(report, h) == [st |-> "err", v |-> report, h |-> h]
EPanic(message, h) == [st |-> "panic", v |-> Error(message), h |-> h]

\* native recursion depth at which the process runs out of stack
MaxCallDepth == 5

RECURSIVE Eval(_, _, _, _, _, _)
eval_program(prog, env, h, depth) == Eval("eval_program", prog, <<>>, env, h, depth)
eval_statement(stmt, env, h, depth) == Eval("eval_statement", stmt, <<>>, env, h, depth)
eval_expression(expr, env, h, depth) == Eval("eval_expression", expr, <<>>, env, h, depth)
apply_function(func, args, h, depth) == Eval("apply_function", func, args, 0, h, depth)

\* a loop that never returns early
ReturnsNever(obj) == FALSE

\* eval_program's `if let Object::ReturnValue(_) = *result`
ReturnsEarly(obj) == obj[1] = "ReturnValue"

RECURSIVE EvalProgramLoop(_, _, _, _, _, _)
EvalProgramLoop(stmts, i, result0, env, h, depth) ==
    IF i > Len(stmts) THEN EOk(result0, h)
    ELSE LET r == eval_statement(stmts[i], env, h, depth)
         IN IF r.st # "ok" THEN r
            ELSE IF ReturnsEarly(r.v) THEN r
            ELSE EvalProgramLoop(stmts, i + 1, r.v, env, r.h, depth)

\* an eval_program that works on a copy of the environments and keeps the
\* copy only when it ends without an error
EvalProgramOnCopy(prog, env, h, depth) ==
    LET r == EvalProgramLoop(prog, 1, Null, env, h, depth)
    IN IF r.st = "err" THEN [r EXCEPT !.h = h] ELSE r

EvalProgram(prog, env, h, depth) == EvalProgramLoop(prog, 1, Null, env, h, depth)

\* a Let arm that takes its mutable borrow of the environment before it
\* evaluates the value, and holds it to the end of the arm
EvalLetStatementBorrowFirst(stmt, env, h, depth) ==
    IF BorrowMutPanics(h, env) THEN EPanic(AlreadyBorrowed, h)
    ELSE LET val == eval_expression(stmt[3], env, [h EXCEPT ![env].borrow = -1], depth)
             released == [val.h EXCEPT ![env].borrow = 0]
         IN IF val.st = "panic" THEN val
            ELSE IF val.st # "ok" THEN [val EXCEPT !.h = released]
            ELSE EOk(Null, Set(released, env, stmt[2], val.v))

\* the Statement::Let arm of eval_statement: the value first, then the
\* mutable borrow, which ends with the arm
EvalLetStatement(stmt, env, h, depth) ==
    LET val == eval_expression(stmt[3], env, h, depth)
    IN IF val.st # "ok" THEN val
       ELSE IF BorrowMutPanics(val.h, env) THEN EPanic(AlreadyBorrowed, val.h)
       ELSE EOk(Null, Set(val.h, env, stmt[2], val.v))

EvalStatement(stmt, env, h, depth) ==
    CASE stmt[1] = "Let" -> EvalLetStatement(stmt, env, h, depth)
      [] stmt[1] = "Return" ->
            LET val == eval_expression(stmt[2], env, h, depth)
            IN IF val.st # "ok" THEN val
               ELSE EOk(ReturnValue(val.v), val.h)
      [] stmt[1] = "Expr" -> eval_expression(stmt[2], env, h, depth)

BuiltinNames == {"len", "first", "last", "rest", "push"}

\* Rust's integer division truncates toward zero.  The literals of the
\* programs evaluated here are small, so no sum, difference, product or
\* negation leaves the range of isize.
Quotient(l, r) ==
    LET al == IF l < 0 THEN -l ELSE l
        ar == IF r < 0 THEN -r ELSE r
    IN IF (l < 0) = (r < 0) THEN al \div ar ELSE -(al \div ar)

EvalPrefixExpression(operator, right, h) ==
    CASE operator = "!" ->
            EOk(Boolean(CASE right = Boolean(TRUE) -> FALSE
                          [] right = Boolean(FALSE) -> TRUE
                          [] right = Null -> TRUE
                          [] OTHER -> FALSE), h)
      [] operator = "-" ->
            IF right[1] = "Integer" THEN EOk(Integer(-right[2]), h)
            ELSE EErr(Error("unknown operator: -" \o Type(right)), h)
      [] OTHER -> EErr(Error("unknown operator: " \o operator \o Type(right)), h)

\* the match of eval_infix_expression, reached with operands of one type
InfixSameType(operator, left, right, h) ==
    LET l == left[2]
        r == right[2]
    IN CASE left[1] = "Integer" /\ operator = "+" -> EOk(Integer(l + r), h)
         [] left[1] = "Integer" /\ operator = "-" -> EOk(Integer(l - r), h)
         [] left[1] = "Integer" /\ operator = "*" -> EOk(Integer(l * r), h)
         [] left[1] = "Integer" /\ operator = "/" ->
               IF r = 0 THEN EPanic("attempt to divide by zero", h)
               ELSE EOk(Integer(Quotient(l, r)), h)
         [] left[1] = "Integer" /\ operator = "<" -> EOk(Boolean(l < r), h)
         [] left[1] = "Integer" /\ operator = ">" -> EOk(Boolean(l > r), h)
         [] left[1] = "Integer" /\ operator = "==" -> EOk(Boolean(l = r), h)
         [] left[1] = "Integer" /\ operator = "!=" -> EOk(Boolean(l # r), h)
         [] left[1] = "Boolean" /\ operator = "==" -> EOk(Boolean(l = r), h)
         [] left[1] = "Boolean" /\ operator = "!=" -> EOk(Boolean(l # r), h)
         [] left[1] = "String" /\ operator = "+" -> EOk(String(l \o r), h)
         [] OTHER ->
               EErr(Error("unknown operator: " \o Type(left) \o " " \o operator \o " "
                          \o Type(right)), h)

TypeMismatch(operator, left, right) ==
    Error("type mismatch: " \o Type(left) \o " " \o operator \o " " \o Type(right))

\* an evaluator in which == and != compare values of different types
EvalInfixLenientEquality(operator, left, right, h) ==
    IF Type(right) # Type(left) /\ operator \in {"==", "!="}
    THEN EOk(Boolean(operator = "!="), h)
    ELSE IF Type(right) # Type(left) THEN EErr(TypeMismatch(operator, left, right), h)
    ELSE InfixSameType(operator, left, right, h)

EvalInfixExpression(operator, left, right, h) ==
    IF Type(right) # Type(left) THEN EErr(TypeMismatch(operator, left, right), h)
    ELSE InfixSameType(operator, left, right, h)

RECURSIVE EvalExpressionsLoop(_, _, _, _, _, _)
EvalExpressionsLoop(expressions, i, result0, env, h, depth) ==
    IF i > Len(expressions) THEN EOk(result0, h)
    ELSE LET evaluated == eval_expression(expressions[i], env, h, depth)
         IN IF evaluated.st # "ok" THEN evaluated
            ELSE EvalExpressionsLoop(expressions, i + 1, Append(result0, evaluated.v), env,
                                     evaluated.h, depth)

RECURSIVE EvalExpressionsLoopBackwards(_, _, _, _, _, _)
EvalExpressionsLoopBackwards(expressions, i, result0, env, h, depth) ==
    IF i < 1 THEN EOk(result0, h)
    ELSE LET evaluated == eval_expression(expressions[i], env, h, depth)
         IN IF evaluated.st # "ok" THEN evaluated
            ELSE EvalExpressionsLoopBackwards(expressions, i - 1, <<evaluated.v>> \o result0,
                                              env, evaluated.h, depth)

\* an eval_expressions that evaluates the last expression first
EvalExpressionsBackwards(expressions, env, h, depth) ==
    EvalExpressionsLoopBackwards(expressions, Len(expressions), <<>>, env, h, depth)

EvalExpressions(expressions, env, h, depth) ==
    EvalExpressionsLoop(expressions, 1, <<>>, env, h, depth)

EvalIndexExpression(left, index, h) ==
    IF left[1] = "Array" /\ index[1] = "Integer"
    THEN LET v == left[2]
             idx == index[2]
         IN IF Len(v) = 0
            THEN (IF overflowChecks THEN EPanic("attempt to subtract with overflow", h)
                  ELSE EOk(Null, h))
            ELSE IF idx < 0 \/ idx > Len(v) - 1 THEN EOk(Null, h)
            ELSE EOk(v[idx + 1], h)
    ELSE IF left[1] = "Hash"
    THEN IF ~IsHashable(index)
         THEN EErr(Error("unusable as hash key: " \o Type(index)), h)
         ELSE IF HashPanics(index) THEN EPanic(HashPanicMessage, h)
         ELSE IF index \in DOMAIN left[2] THEN EOk(left[2][index], h)
         ELSE EOk(Null, h)
    ELSE EErr(Error("Indexing only for arrays and maps"), h)

RECURSIVE EvalHashLoop(_, _, _, _, _, _)
EvalHashLoop(v, i, pairs, env, h, depth) ==
    IF i > Len(v) THEN EOk(Hash(pairs), h)
    ELSE LET key == eval_expression(v[i][1], env, h, depth)
         IN IF key.st # "ok" THEN key
            ELSE LET value == eval_expression(v[i][2], env, key.h, depth)
                 IN IF value.st # "ok" THEN value
                    ELSE IF ~IsHashable(key.v)
                    THEN EErr(Error("Type of " \o Type(key.v) \o " cannot be used as a key"),
                              value.h)
                    ELSE IF HashPanics(key.v) THEN EPanic(HashPanicMessage, value.h)
                    ELSE EvalHashLoop(v, i + 1, StoreInsert(pairs, key.v, value.v), env,
                                      value.h, depth)

EvalHashLiteral(v, env, h, depth) == EvalHashLoop(v, 1, EmptyStore, env, h, depth)

WrongNumberOfArguments(got, want) ==
    Error("wrong number of arguments. got=" \o ToString(got) \o ", want = " \o ToString(want))

BuiltinLen(args, h) ==
    IF Len(args) # 1 THEN EErr(WrongNumberOfArguments(Len(args), 1), h)
    ELSE LET arg == args[1]
         IN CASE arg[1] = "String" -> EOk(Integer(Len(arg[2])), h)
              [] arg[1] = "Array" -> EOk(Integer(Len(arg[2])), h)
              [] OTHER -> EErr(ErrorWith("argument to len not supported, got {}", arg), h)

\* a first that matches on args[0] before it has counted the arguments
BuiltinFirstArgumentFirst(args, h) ==
    IF Len(args) = 0 THEN EPanic("index out of bounds: the len is 0 but the index is 0", h)
    ELSE LET arg == args[1]
         IN IF arg[1] # "Array"
            THEN EErr(ErrorWith("argument to first must be ARRAY, got {}", arg), h)
            ELSE IF Len(args) # 1 THEN EErr(WrongNumberOfArguments(Len(args), 1), h)
            ELSE (IF arg[2] # <<>> THEN EOk(arg[2][1], h) ELSE EOk(Null, h))

BuiltinFirst(args, h) ==
    IF Len(args) # 1 THEN EErr(WrongNumberOfArguments(Len(args), 1), h)
    ELSE LET arg == args[1]
         IN IF arg[1] = "Array"
            THEN (IF arg[2] # <<>> THEN EOk(arg[2][1], h) ELSE EOk(Null, h))
            ELSE EErr(ErrorWith("argument to first must be ARRAY, got {}", arg), h)

BuiltinLast(args, h) ==
    IF Len(args) # 1 THEN EErr(WrongNumberOfArguments(Len(args), 1), h)
    ELSE LET arg == args[1]
         IN IF arg[1] = "Array"
            THEN (IF arg[2] # <<>> THEN EOk(arg[2][Len(arg[2])], h) ELSE EOk(Null, h))
            ELSE EErr(ErrorWith("argument to first must be ARRAY, got {}", arg), h)

BuiltinRest(args, h) ==
    IF Len(args) # 1 THEN EErr(WrongNumberOfArguments(Len(args), 1), h)
    ELSE LET arg == args[1]
         IN IF arg[1] = "Array"
            THEN (IF arg[2] # <<>> THEN EOk(Array(Tail(arg[2])), h) ELSE EOk(Null, h))
            ELSE EErr(Error("argument to rest must be ARRAY, got " \o Type(arg)), h)

\* a push that appends to the array it was handed: every binding that holds
\* that array sees the new element
BuiltinPushInPlace(args, h) ==
    IF Len(args) # 2 THEN EErr(WrongNumberOfArguments(Len(args), 2), h)
    ELSE LET arg == args[1]
             pushed == Array(Append(arg[2], args[2]))
         IN IF arg[1] = "Array"
            THEN EOk(pushed,
                     [e \in 1..Len(h) |->
                        [h[e] EXCEPT !.store =
                            [n \in DOMAIN @ |-> IF @[n] = arg THEN pushed ELSE @[n]]]])
            ELSE EErr(Error("argument to push must be ARRAY, got " \o Type(arg)), h)

BuiltinPush(args, h) ==
    IF Len(args) # 2 THEN EErr(WrongNumberOfArguments(Len(args), 2), h)
    ELSE LET arg == args[1]
         IN IF arg[1] = "Array" THEN EOk(Array(Append(arg[2], args[2])), h)
            ELSE EErr(Error("argument to push must be ARRAY, got " \o Type(arg)), h)

ApplyBuiltin(name, args, h) ==
    CASE name = "len" -> BuiltinLen(args, h)
      [] name = "first" -> BuiltinFirst(args, h)
      [] name = "last" -> BuiltinLast(args, h)
      [] name = "rest" -> BuiltinRest(args, h)
      [] name = "push" -> BuiltinPush(args, h)

\* apply_function's loop over the parameters: each is set to the argument at
\* its position, a repeated name keeping the last
RECURSIVE BindParameters(_, _, _, _)
BindParameters(new_env, parameters, args, param_idx) ==
    IF param_idx > Len(parameters) THEN new_env
    ELSE BindParameters(
            [new_env EXCEPT !.store = StoreInsert(@, parameters[param_idx], args[param_idx])],
            parameters, args, param_idx + 1)

ApplyFunction(func, args, h, depth) ==
    CASE func[1] = "Function" ->
            LET parameters == func[2]
                body == func[3]
                env == func[4]
            IN IF Len(args) < Len(parameters)
               THEN EPanic("index out of bounds", h)
               ELSE IF depth >= MaxCallDepth
               THEN EPanic("stack overflow", h)
               ELSE LET extended_env == BindParameters(NewEnclosed(env), parameters, args, 1)
                        evaluated == eval_program(body, Len(h) + 1, Append(h, extended_env),
                                                  depth + 1)
                    IN IF evaluated.st # "ok" THEN evaluated
                       ELSE IF evaluated.v[1] = "ReturnValue"
                       THEN EOk(evaluated.v[2], evaluated.h)
                       ELSE evaluated
      [] func[1] = "Builtin" -> ApplyBuiltin(func[2], args, h)
      [] OTHER -> EErr(Error("not a function: " \o Type(func)), h)

\* a lookup that asks the builtins before the environment
EvalIdentifierBuiltinsFirst(name, env, h) ==
    LET found == Get(h, env, name)
    IN IF name \in BuiltinNames THEN EOk(Builtin(name), h)
       ELSE IF found[1] = "Some" THEN EOk(found[2], h)
       ELSE EErr(Error("identifier not found: " \o name), h)

\* the Expression::Ident arm of eval_expression
EvalIdentifier(name, env, h) ==
    LET found == Get(h, env, name)
    IN IF GetBorrowPanics(h, env, name) THEN EPanic(AlreadyMutablyBorrowed, h)
       ELSE IF found[1] = "Some" THEN EOk(found[2], h)
       ELSE IF name \in BuiltinNames THEN EOk(Builtin(name), h)
       ELSE EErr(Error("identifier not found: " \o name), h)

\* a truthiness in which the integer 0 counts as false
IsTruthyZeroFalse(obj) ==
    CASE obj[1] = "Null" -> FALSE
      [] obj[1] = "Boolean" -> obj[2]
      [] obj[1] = "Integer" -> obj[2] # 0
      [] OTHER -> TRUE

\* a capture that copies the Environment as it stands into a new one
EnvironmentClone(env, h) == [env |-> Len(h) + 1, h |-> Append(h, h[env])]

\* Rc::clone(env): another handle on the same Environment
RcClone(env, h) == [env |-> env, h |-> h]

IsTruthy(obj) ==
    CASE obj[1] = "Null" -> FALSE
      [] obj[1] = "Boolean" -> obj[2]
      [] OTHER -> TRUE

EvalExpression(expression, env, h, depth) ==
    CASE expression[1] = "Int" -> EOk(Integer(expression[2]), h)
      [] expression[1] = "Bool" -> EOk(Boolean(expression[2]), h)
      [] expression[1] = "Ident" -> EvalIdentifier(expression[2], env, h)
      [] expression[1] = "Prefix" ->
            LET right_obj == eval_expression(expression[3], env, h, depth)
            IN IF right_obj.st # "ok" THEN right_obj
               ELSE EvalPrefixExpression(expression[2], right_obj.v, right_obj.h)
      [] expression[1] = "Infix" ->
            LET left_obj == eval_expression(expression[3], env, h, depth)
            IN IF left_obj.st # "ok" THEN left_obj
               ELSE LET right_obj == eval_expression(expression[4], env, left_obj.h, depth)
                    IN IF right_obj.st # "ok" THEN right_obj
                       ELSE EvalInfixExpression(expression[2], left_obj.v, right_obj.v,
                                                right_obj.h)
      [] expression[1] = "If" ->
            LET condition == eval_expression(expression[2], env, h, depth)
            IN IF condition.st # "ok" THEN condition
               ELSE IF IsTruthy(condition.v)
               THEN eval_program(expression[3], env, condition.h, depth)
               ELSE IF expression[4] # NoAlt
               THEN eval_program(expression[4][2], env, condition.h, depth)
               ELSE EOk(Null, condition.h)
      [] expression[1] = "Fn" ->
            LET captured == RcClone(env, h)
            IN EOk(Function(expression[2], expression[3], captured.env), captured.h)
      [] expression[1] = "Call" ->
            LET func == eval_expression(expression[2], env, h, depth)
            IN IF func.st # "ok" THEN func
               ELSE LET args == EvalExpressions(expression[3], env, func.h, depth)
                    IN IF args.st # "ok" THEN args
                       ELSE apply_function(func.v, args.v, args.h, depth)
      [] expression[1] = "Str" -> EOk(String(expression[2]), h)
      [] expression[1] = "Array" ->
            LET elements == EvalExpressions(expression[2], env, h, depth)
            IN IF elements.st # "ok" THEN elements
               ELSE EOk(Array(elements.v), elements.h)
      [] expression[1] = "Index" ->
            LET left == eval_expression(expression[2], env, h, depth)
            IN IF left.st # "ok" THEN left
               ELSE LET index == eval_expression(expression[3], env, left.h, depth)
                    IN IF index.st # "ok" THEN index
                       ELSE EvalIndexExpression(left.v, index.v, index.h)
      [] expression[1] = "Hash" -> EvalHashLiteral(expression[2], env, h, depth)

Eval(function, node, args, env, h, depth) ==
    CASE function = "eval_program" -> EvalProgram(node, env, h, depth)
      [] function = "eval_statement" -> EvalStatement(node, env, h, depth)
      [] function = "eval_expression" -> EvalExpression(node, env, h, depth)
      [] function = "apply_function" -> ApplyFunction(node, args, h, depth)

----------------------------------------------------------------------------
(* The programs handed to eval, written as the parser builds them          *)
(* (ast.rs Statement and Expression).                                      *)

Let(name, value) == <<"Let", name, value>>
Return(value) == <<"Return", value>>
Expr(expression) == <<"Expr", expression>>
IntegerLiteral(i) == <<"Int", i>>
BooleanLiteral(b) == <<"Bool", b>>
PrefixExpr(operator, right) == <<"Prefix", operator, right>>
InfixExpr(operator, left, right) == <<"Infix", operator, left, right>>
IfExpr(condition, consequence, alternative) == <<"If", condition, consequence, alternative>>
FunctionLiteral(parameters, body) == <<"Fn", parameters, body>>
CallExpr(function, arguments) == <<"Call", function, arguments>>
StringLiteral(s) == <<"Str", s>>
ArrayLiteral(v) == <<"Array", v>>
IndexExpr(left, index) == <<"Index", left, index>>
HashLiteral(v) == <<"Hash", v>>

MaxValue == 2   \* integer literals of the generated programs run over 0..MaxValue
MaxNest == 2    \* depth to which `if` blocks are nested in the generated programs
MaxArity == 2   \* longest parameter list and argument list of the generated calls
MaxLines == 2   \* number of lines the REPL reads

\* the statements the generated blocks are made of: return k, let z = k, and
\* the use of a name nothing binds
Atoms ==
    { Return(IntegerLiteral(k)) : k \in 1..MaxValue }
    \cup { Let("z", IntegerLiteral(MaxValue)), Expr(Ident("oops")) }

Tails == {<<>>} \cup { <<a>> : a \in Atoms }

\* what follows an `if` inside a block
InnerTails ==
    {<<>>, <<Return(IntegerLiteral(MaxValue))>>, <<Let("z", IntegerLiteral(MaxValue))>>}

RECURSIVE Blocks(_)
Blocks(nest) ==
    IF nest = 0 THEN { <<a>> \o t : a \in Atoms, t \in Tails }
    ELSE Blocks(nest - 1)
         \cup { <<Expr(IfExpr(BooleanLiteral(b), blk, NoAlt))>> \o t :
                    b \in BOOLEAN, blk \in Blocks(nest - 1), t \in InnerTails }

ElseBlocks ==
    { <<Expr(IfExpr(BooleanLiteral(b), <<a1>>, SomeAlt(<<a2>>)))>> \o t :
        b \in BOOLEAN, a1 \in Atoms, a2 \in Atoms, t \in Tails }

\* fn() { body }()
CallOfBody(body) == <<Expr(CallExpr(FunctionLiteral(<<>>, body), <<>>))>>

ReturnLines ==
    Blocks(MaxNest) \cup ElseBlocks
    \cup { CallOfBody(body) : body \in Blocks(MaxNest) \cup ElseBlocks }

\* return if (b) { block }, at the top level and as a function body
ReturnIfLines ==
    LET bodies == { <<Return(IfExpr(BooleanLiteral(b), blk, NoAlt))>> \o t :
                        b \in BOOLEAN, blk \in Blocks(0), t \in Tails }
    IN bodies \cup { CallOfBody(body) : body \in bodies }

\* programs in which the environment a function is called from binds `x`
\* differently from the environment the function was defined in
ClosureShapes == {"param", "local", "adder", "fresh"}

ClosureLine(shape, a, b) ==
    CASE shape = "param" ->
            \* let x = a; let f = fn() { x }; let g = fn(x) { f() }; g(b)
            << Let("x", IntegerLiteral(a)),
               Let("f", FunctionLiteral(<<>>, <<Expr(Ident("x"))>>)),
               Let("g", FunctionLiteral(<<"x">>, <<Expr(CallExpr(Ident("f"), <<>>))>>)),
               Expr(CallExpr(Ident("g"), <<IntegerLiteral(b)>>)) >>
      [] shape = "local" ->
            \* let x = a; let f = fn(y) { x + y }; let g = fn() { let x = b; f(b) }; g()
            << Let("x", IntegerLiteral(a)),
               Let("f", FunctionLiteral(<<"y">>,
                            <<Expr(InfixExpr("+", Ident("x"), Ident("y")))>>)),
               Let("g", FunctionLiteral(<<>>,
                            << Let("x", IntegerLiteral(b)),
                               Expr(CallExpr(Ident("f"), <<IntegerLiteral(b)>>)) >>)),
               Expr(CallExpr(Ident("g"), <<>>)) >>
      [] shape = "adder" ->
            \* let newAdder = fn(x) { fn(y) { x + y } }; let f = newAdder(a); let x = b; f(b)
            << Let("newAdder", FunctionLiteral(<<"x">>,
                    <<Expr(FunctionLiteral(<<"y">>,
                            <<Expr(InfixExpr("+", Ident("x"), Ident("y")))>>))>>)),
               Let("f", CallExpr(Ident("newAdder"), <<IntegerLiteral(a)>>)),
               Let("x", IntegerLiteral(b)),
               Expr(CallExpr(Ident("f"), <<IntegerLiteral(b)>>)) >>
      [] shape = "fresh" ->
            \* let f = fn(c) { if (c) { let t = a; } t }; f(true); f(false)
            << Let("f", FunctionLiteral(<<"c">>,
                    << Expr(IfExpr(Ident("c"), <<Let("t", IntegerLiteral(a))>>, NoAlt)),
                       Expr(Ident("t")) >>)),
               Expr(CallExpr(Ident("f"), <<BooleanLiteral(TRUE)>>)),
               Expr(CallExpr(Ident("f"), <<BooleanLiteral(FALSE)>>)) >>

ClosureLines ==
    { ClosureLine(shape, a, b) : shape \in ClosureShapes, a \in 0..MaxValue, b \in 0..MaxValue }

ParameterNames == <<"x", "y", "u", "v", "w">>

\* let f = fn(x, ..) { 1 }; f(1, ..)   with np parameters and na arguments
ArityLine(np, na) ==
    << Let("f", FunctionLiteral(SubSeq(ParameterNames, 1, np), <<Expr(IntegerLiteral(1))>>)),
       Expr(CallExpr(Ident("f"), [i \in 1..na |-> IntegerLiteral(i)])) >>

ArityLines == { ArityLine(np, na) : np \in 0..MaxArity, na \in 0..MaxArity }

\* n / d and -n / d
DivisionLines ==
    { <<Expr(InfixExpr("/", n, IntegerLiteral(d)))>> :
        n \in { IntegerLiteral(k) : k \in 0..MaxValue }
              \cup { PrefixExpr("-", IntegerLiteral(k)) : k \in 1..MaxValue },
        d \in 0..MaxValue }

OtherLines ==
    { <<Expr(IndexExpr(ArrayLiteral(<<IntegerLiteral(1), IntegerLiteral(2)>>),
                       IntegerLiteral(1)))>>,
      <<Expr(IndexExpr(ArrayLiteral(<<>>), IntegerLiteral(0)))>>,
      <<Expr(IndexExpr(HashLiteral(<< <<StringLiteral("k"), IntegerLiteral(1)>>,
                                      <<BooleanLiteral(TRUE), IntegerLiteral(2)>> >>),
                       StringLiteral("k")))>>,
      <<Expr(HashLiteral(<< <<ArrayLiteral(<<>>), IntegerLiteral(1)>> >>))>>,
      <<Expr(IndexExpr(IntegerLiteral(1), IntegerLiteral(1)))>>,
      <<Expr(CallExpr(Ident("len"), <<StringLiteral("ab")>>))>>,
      <<Expr(CallExpr(Ident("len"), <<IntegerLiteral(1)>>))>>,
      <<Expr(CallExpr(Ident("first"), <<ArrayLiteral(<<IntegerLiteral(1)>>)>>))>>,
      <<Expr(CallExpr(Ident("last"), <<ArrayLiteral(<<>>)>>))>>,
      <<Expr(CallExpr(Ident("rest"), <<ArrayLiteral(<<IntegerLiteral(1), IntegerLiteral(2)>>)>>))>>,
      <<Expr(CallExpr(Ident("push"), <<ArrayLiteral(<<>>), IntegerLiteral(1)>>))>>,
      <<Expr(CallExpr(Ident("push"), <<ArrayLiteral(<<>>)>>))>>,
      <<Expr(CallExpr(IntegerLiteral(1), <<>>))>>,
      <<Expr(PrefixExpr("-", BooleanLiteral(TRUE)))>>,
      <<Expr(PrefixExpr("!", IntegerLiteral(0)))>>,
      <<Expr(InfixExpr("+", IntegerLiteral(1), BooleanLiteral(TRUE)))>>,
      <<Expr(InfixExpr("+", StringLiteral("a"), StringLiteral("b")))>>,
      <<Expr(InfixExpr("<", BooleanLiteral(TRUE), BooleanLiteral(FALSE)))>>,
      <<Let("f", FunctionLiteral(<<>>, <<Expr(CallExpr(Ident("f"), <<>>))>>)),
        Expr(CallExpr(Ident("f"), <<>>))>> }

\* programs in which an environment gets a binding after a function has
\* captured it
SharedShapes == {"later", "rebind", "self", "two"}

SharedLine(shape, a, b) ==
    CASE shape = "later" ->
            \* let f = fn() { y }; let y = a; f()
            << Let("f", FunctionLiteral(<<>>, <<Expr(Ident("y"))>>)),
               Let("y", IntegerLiteral(a)),
               Expr(CallExpr(Ident("f"), <<>>)) >>
      [] shape = "rebind" ->
            \* let y = a; let f = fn() { y }; let y = b; f()
            << Let("y", IntegerLiteral(a)),
               Let("f", FunctionLiteral(<<>>, <<Expr(Ident("y"))>>)),
               Let("y", IntegerLiteral(b)),
               Expr(CallExpr(Ident("f"), <<>>)) >>
      [] shape = "self" ->
            \* let f = fn(n) { if (n) { f(false) } else { a } }; f(true)
            << Let("f", FunctionLiteral(<<"n">>,
                    <<Expr(IfExpr(Ident("n"),
                            <<Expr(CallExpr(Ident("f"), <<BooleanLiteral(FALSE)>>))>>,
                            SomeAlt(<<Expr(IntegerLiteral(a))>>)))>>)),
               Expr(CallExpr(Ident("f"), <<BooleanLiteral(TRUE)>>)) >>
      [] shape = "two" ->
            \* let f = fn() { y }; let g = fn() { y }; let y = a; [f(), g()]
            << Let("f", FunctionLiteral(<<>>, <<Expr(Ident("y"))>>)),
               Let("g", FunctionLiteral(<<>>, <<Expr(Ident("y"))>>)),
               Let("y", IntegerLiteral(a)),
               Expr(ArrayLiteral(<<CallExpr(Ident("f"), <<>>), CallExpr(Ident("g"), <<>>)>>)) >>

SharedLines ==
    { SharedLine(shape, a, b) : shape \in SharedShapes, a \in 0..MaxValue, b \in 0..MaxValue }

\* fn(parameters) { name }(arguments)
CallReading(parameters, name, arguments) ==
    CallExpr(FunctionLiteral(parameters, <<Expr(Ident(name))>>), arguments)

\* programs that read a name bound in the innermost scope, in an outer
\* scope, by the builtins, or nowhere
ScopeShapes == {"parameter", "outer", "nested", "inner let", "builtin", "unbound"}

ScopeNames == {"x", "len", "q"}

ScopeLine(shape, name, a, b) ==
    CASE shape = "parameter" ->
            \* let name = a; fn(name) { name }(b)
            << Let(name, IntegerLiteral(a)),
               Expr(CallReading(<<name>>, name, <<IntegerLiteral(b)>>)) >>
      [] shape = "outer" ->
            \* let name = a; fn(y) { name }(b)
            << Let(name, IntegerLiteral(a)),
               Expr(CallReading(<<"y">>, name, <<IntegerLiteral(b)>>)) >>
      [] shape = "nested" ->
            \* let name = a; fn(name) { fn(y) { name }(a) }(b)
            << Let(name, IntegerLiteral(a)),
               Expr(CallExpr(FunctionLiteral(<<name>>,
                        <<Expr(CallReading(<<"y">>, name, <<IntegerLiteral(a)>>))>>),
                    <<IntegerLiteral(b)>>)) >>
      [] shape = "inner let" ->
            \* let name = a; fn() { let name = b; name }(); name
            << Let(name, IntegerLiteral(a)),
               Expr(CallExpr(FunctionLiteral(<<>>,
                        <<Let(name, IntegerLiteral(b)), Expr(Ident(name))>>), <<>>)),
               Expr(Ident(name)) >>
      [] shape = "builtin" ->
            \* let y = a; fn(y) { name }(b)
            << Let("y", IntegerLiteral(a)),
               Expr(CallReading(<<"y">>, name, <<IntegerLiteral(b)>>)) >>
      [] shape = "unbound" ->
            \* fn(y) { name }(b); let name = a
            << Expr(CallReading(<<"y">>, name, <<IntegerLiteral(b)>>)),
               Let(name, IntegerLiteral(a)) >>

ScopeLines ==
    { ScopeLine(shape, name, a, b) :
        shape \in ScopeShapes, name \in ScopeNames, a \in 0..MaxValue, b \in 0..MaxValue }

\* one expression for each type of value an expression can have: 1, true,
\* "a", [], {}, fn() { }, len, and if (false) { 1 } for Null
Operands ==
    { IntegerLiteral(1), BooleanLiteral(TRUE), StringLiteral("a"), ArrayLiteral(<<>>),
      HashLiteral(<<>>), FunctionLiteral(<<>>, <<>>), Ident("len"),
      IfExpr(BooleanLiteral(FALSE), <<Expr(IntegerLiteral(1))>>, NoAlt) }

\* the operators the parser builds an Infix expression for
InfixOperators == {"+", "-", "*", "/", "<", ">", "==", "!="}

\* left operator right
OperatorLines ==
    { <<Expr(InfixExpr(operator, left, right))>> :
        operator \in InfixOperators, left \in Operands, right \in Operands }

\* the operands, and with them false, 0 and ""
Conditions ==
    Operands \cup {BooleanLiteral(FALSE), IntegerLiteral(0), StringLiteral("")}

TruthShapes == {"bang", "if", "if else"}

TruthLine(shape, v) ==
    CASE shape = "bang" -> <<Expr(PrefixExpr("!", v))>>
      [] shape = "if" -> <<Expr(IfExpr(v, <<Expr(IntegerLiteral(1))>>, NoAlt))>>
      [] shape = "if else" ->
            <<Expr(IfExpr(v, <<Expr(IntegerLiteral(1))>>,
                          SomeAlt(<<Expr(IntegerLiteral(2))>>)))>>

\* !v;   if (v) { 1 };   if (v) { 1 } else { 2 }
TruthLines == { TruthLine(shape, v) : shape \in TruthShapes, v \in Conditions }

\* the expression the parser builds for the integer i
IntegerExpr(i) == IF i < 0 THEN PrefixExpr("-", IntegerLiteral(-i)) ELSE IntegerLiteral(i)

\* [1, .., n][i]
ArrayIndexLine(n, i) ==
    <<Expr(IndexExpr(ArrayLiteral([k \in 1..n |-> IntegerLiteral(k)]), IntegerExpr(i)))>>

ArrayIndexLines == { ArrayIndexLine(n, i) : n \in 0..MaxArity, i \in (-1)..MaxArity }

\* the keys a Hash can hold, as expressions
HashableKeys ==
    { StringLiteral("k"), StringLiteral("q"), BooleanLiteral(TRUE), BooleanLiteral(FALSE),
      IntegerLiteral(0), IntegerLiteral(1) }

\* {"k": 1, true: 2, 1: 3}
SomeHash ==
    HashLiteral(<< <<StringLiteral("k"), IntegerLiteral(1)>>,
                   <<BooleanLiteral(TRUE), IntegerLiteral(2)>>,
                   <<IntegerLiteral(1), IntegerLiteral(3)>> >>)

\* {"k": 1, true: 2, 1: 3}[key] and {}[key]
HashIndexLine(hash, key) == <<Expr(IndexExpr(hash, key))>>

HashIndexLines ==
    { HashIndexLine(hash, key) : hash \in {SomeHash, HashLiteral(<<>>)}, key \in HashableKeys }

HashKeyShapes == {"literal", "second", "index", "index empty"}

HashKeyLine(shape, key) ==
    CASE shape = "literal" ->
            \* {key: 1}
            <<Expr(HashLiteral(<< <<key, IntegerLiteral(1)>> >>))>>
      [] shape = "second" ->
            \* {0: 1, key: 2}
            <<Expr(HashLiteral(<< <<IntegerLiteral(0), IntegerLiteral(1)>>,
                                  <<key, IntegerLiteral(2)>> >>))>>
      [] shape = "index" -> HashIndexLine(SomeHash, key)
      [] shape = "index empty" -> HashIndexLine(HashLiteral(<<>>), key)

\* hash literals and hash indexes with a key of every type
HashKeyLines == { HashKeyLine(shape, key) : shape \in HashKeyShapes, key \in Operands }

\* [1, .., n]
ArrayOf(n) == ArrayLiteral([k \in 1..n |-> IntegerLiteral(k)])

CopyShapes == {"push", "rest"}

\* let a = [1, .., n]; let c = a; let b = push(a, v); [a, c, b]
\* let a = [1, .., n]; let c = a; let b = rest(a); [a, c, b]
CopyLine(shape, n, v) ==
    << Let("a", ArrayOf(n)),
       Let("c", Ident("a")),
       Let("b", CallExpr(Ident(shape),
                    IF shape = "push" THEN <<Ident("a"), IntegerLiteral(v)>>
                    ELSE <<Ident("a")>>)),
       Expr(ArrayLiteral(<<Ident("a"), Ident("c"), Ident("b")>>)) >>

CopyLines ==
    { CopyLine(shape, n, v) : shape \in CopyShapes, n \in 0..MaxArity, v \in 0..MaxValue }

\* the functions of the BUILTINS table that take arguments from Monkey code
ArrayBuiltins == {"len", "first", "last", "rest", "push"}

\* nothing, one operand of each type of value, and one and two more
\* arguments after it
ArgumentLists ==
    LET firsts == Operands \cup {ArrayOf(2)}
    IN {<<>>} \cup { <<a>> : a \in firsts }
              \cup { <<a, IntegerLiteral(0)>> : a \in firsts }
              \cup { <<a, IntegerLiteral(0), IntegerLiteral(0)>> : a \in firsts }

\* name(arguments)
BuiltinCallLine(name, arguments) == <<Expr(CallExpr(Ident(name), arguments))>>

BuiltinCallLines ==
    { BuiltinCallLine(name, arguments) : name \in ArrayBuiltins, arguments \in ArgumentLists }

\* statements that end an eval call with an error
Aborts ==
    { Expr(Ident("oops")),
      Expr(InfixExpr("+", IntegerLiteral(1), BooleanLiteral(TRUE))),
      Expr(PrefixExpr("-", BooleanLiteral(TRUE))),
      Expr(CallExpr(IntegerLiteral(1), <<>>)),
      Let("y", Ident("oops")) }

\* let z = v; abort; let y = 0
AbortedLine(v, abort) == <<Let("z", IntegerLiteral(v)), abort, Let("y", IntegerLiteral(0))>>

AbortedLines == { AbortedLine(v, abort) : v \in 0..MaxValue, abort \in Aborts }

\* what stands for the callee: a function, an unbound name, a value that is
\* no function
Callees == {Ident("f"), Ident("c"), IntegerLiteral(1)}

\* what stands for an argument at position i: a literal, an unbound name of
\* its own, a call that runs a function body
ArgumentsAt(i) ==
    {IntegerLiteral(1), Ident(IF i = 1 THEN "a" ELSE "b"), CallExpr(Ident("g"), <<>>)}

\* let f = fn(x, y) { x }; let g = fn() { 1 }; callee(first, second)
CallOrderLine(callee, first, second) ==
    << Let("f", FunctionLiteral(<<"x", "y">>, <<Expr(Ident("x"))>>)),
       Let("g", FunctionLiteral(<<>>, <<Expr(IntegerLiteral(1))>>)),
       Expr(CallExpr(callee, <<first, second>>)) >>

CallOrderLines ==
    { CallOrderLine(callee, first, second) :
        callee \in Callees, first \in ArgumentsAt(1), second \in ArgumentsAt(2) }

\* if (true) { return v }
ReturningIf(v) == IfExpr(BooleanLiteral(TRUE), <<Return(IntegerLiteral(v))>>, NoAlt)

\* the places a value is taken from an expression
EscapeShapes == {"let", "argument", "element", "value", "prefix", "infix", "builtin"}

\* the expression that takes the value of `inner` in the way of `shape`
Taking(shape, inner) ==
    CASE shape = "argument" ->
            CallExpr(FunctionLiteral(<<"x">>, <<Expr(Ident("x"))>>), <<inner>>)
      [] shape = "element" -> ArrayLiteral(<<inner>>)
      [] shape = "value" -> HashLiteral(<< <<IntegerLiteral(0), inner>> >>)
      [] shape = "prefix" -> PrefixExpr("-", inner)
      [] shape = "infix" -> InfixExpr("+", IntegerLiteral(0), inner)
      [] shape = "builtin" -> CallExpr(Ident("len"), <<inner>>)

\* fn() { let x = if (true) { return v }; 0 }()       for "let", and
\* fn() { <taking the value of if (true) { return v }>; 0 }()  for the others
EscapeLine(shape, v) ==
    << Expr(CallExpr(FunctionLiteral(<<>>,
            << (IF shape = "let" THEN Let("x", ReturningIf(v))
                ELSE Expr(Taking(shape, ReturningIf(v)))),
               Expr(IntegerLiteral(0)) >>), <<>>)) >>

\* let x = if (true) { return v }; x
EscapeTopLine(v) == <<Let("x", ReturningIf(v)), Expr(Ident("x"))>>

EscapeLines ==
    { EscapeLine(shape, v) : shape \in EscapeShapes, v \in 1..MaxValue }
    \cup { EscapeTopLine(v) : v \in 1..MaxValue }

BorrowShapes == {"rebind", "recursion", "closure"}

\* let x = v; let x = x + 1; x
\* let x = v; let f = fn(n) { let y = x + n; if (n < 1) { y } else { f(n - 1) } }; f(2)
\* let mk = fn(a) { fn(b) { let s = a + b; s } }; let add = mk(v); add(1)
BorrowLine(shape, v) ==
    CASE shape = "rebind" ->
            << Let("x", IntegerLiteral(v)),
               Let("x", InfixExpr("+", Ident("x"), IntegerLiteral(1))),
               Expr(Ident("x")) >>
      [] shape = "recursion" ->
            << Let("x", IntegerLiteral(v)),
               Let("f", FunctionLiteral(<<"n">>,
                    << Let("y", InfixExpr("+", Ident("x"), Ident("n"))),
                       Expr(IfExpr(InfixExpr("<", Ident("n"), IntegerLiteral(1)),
                                   <<Expr(Ident("y"))>>,
                                   SomeAlt(<<Expr(CallExpr(Ident("f"),
                                        <<InfixExpr("-", Ident("n"), IntegerLiteral(1))>>))>>))) >>)),
               Expr(CallExpr(Ident("f"), <<IntegerLiteral(2)>>)) >>
      [] shape = "closure" ->
            << Let("mk", FunctionLiteral(<<"a">>,
                    << Expr(FunctionLiteral(<<"b">>,
                          << Let("s", InfixExpr("+", Ident("a"), Ident("b"))),
                             Expr(Ident("s")) >>)) >>)),
               Let("add", CallExpr(Ident("mk"), <<IntegerLiteral(v)>>)),
               Expr(CallExpr(Ident("add"), <<IntegerLiteral(1)>>)) >>

BorrowLines == { BorrowLine(shape, v) : shape \in BorrowShapes, v \in 0..MaxValue }

FirstLines ==
    ReturnLines \cup ReturnIfLines \cup ClosureLines \cup ArityLines \cup DivisionLines
    \cup OtherLines \cup SharedLines \cup ScopeLines \cup OperatorLines \cup TruthLines
    \cup ArrayIndexLines \cup HashIndexLines \cup HashKeyLines \cup CopyLines
    \cup BuiltinCallLines \cup AbortedLines \cup CallOrderLines \cup EscapeLines
    \cup BorrowLines

\* z;   z + 1;   let z = 0; return z; oops;   g()
FollowUps ==
    { <<Expr(Ident("z"))>>,
      <<Expr(InfixExpr("+", Ident("z"), IntegerLiteral(1)))>>,
      <<Let("z", IntegerLiteral(0)), Return(Ident("z")), Expr(Ident("oops"))>>,
      <<Expr(CallExpr(Ident("g"), <<>>))>> }

----------------------------------------------------------------------------
(* The evaluator's specification: the REPL creates one Environment and     *)
(* calls eval on it with one Program after another, until a panic ends the *)
(* process.                                                                *)

ParserIdle ==
    /\ tokens = <<>>
    /\ ps = [p |-> 1, dr |-> 0]
    /\ program = <<>>
    /\ errors = <<>>
    /\ pstatus = "idle"
    /\ starts = <<>>
    /\ errStarts = <<>>
    /\ family = "none"

InitEval ==
    /\ heap = <<EnvironmentNew>>
    /\ result = [st |-> "none", v |-> Null]
    /\ line = <<>>
    /\ prevHeap = <<EnvironmentNew>>
    /\ prevStatus = "none"
    /\ nlines = 0
    /\ overflowChecks \in BOOLEAN
    /\ ParserIdle
    /\ LexerIdle
    /\ EditorIdle

\* eval(Node::Program(src), &environment) returning or aborting with `outcome`
EvalLine(src, outcome) ==
    /\ result.st # "panic"
    /\ LET r == eval_program(src, 1, heap, 0)
       IN /\ r.st = outcome
          /\ result' = [st |-> r.st, v |-> r.v]
          /\ heap' = r.h
    /\ line' = src
    /\ prevHeap' = heap
    /\ prevStatus' = result.st
    /\ nlines' = nlines + 1
    /\ UNCHANGED <<parserVars, overflowChecks, lexVars, editVars>>

Inputs == IF nlines = 0 THEN FirstLines ELSE FollowUps

EvalOk == nlines < MaxLines /\ \E src \in Inputs : EvalLine(src, "ok")

EvalErr == nlines < MaxLines /\ \E src \in Inputs : EvalLine(src, "err")

EvalPanic == nlines < MaxLines /\ \E src \in Inputs : EvalLine(src, "panic")

NextEval ==
    \/ EvalOk
    \/ EvalErr
    \/ EvalPanic

SpecEval == InitEval /\ [][NextEval]_vars

----------------------------------------------------------------------------
(* Claims about the evaluator, checked under SpecEval.                     *)

\* the first statement of `stmts` that yields a ReturnValue-tagged value when
\* the statements are evaluated one at a time in environment 1, each on the
\* environments the one before left
RECURSIVE FirstTagged(_, _, _)
FirstTagged(stmts, i, h) ==
    IF i > Len(stmts) THEN [found |-> FALSE]
    ELSE LET r == eval_statement(stmts[i], 1, h, 0)
         IN IF r.st # "ok" THEN [found |-> FALSE]
            ELSE IF r.v[1] = "ReturnValue" THEN [found |-> TRUE, v |-> r.v, h |-> r.h]
            ELSE FirstTagged(stmts, i + 1, r.h)

\* blocks of `return k`, `let name = k`, bare identifiers and `if` on a
\* boolean literal over such blocks
RECURSIVE IsPlainBlock(_)
IsPlainBlock(block) ==
    \A i \in 1..Len(block) :
        LET s == block[i]
        IN \/ s[1] = "Return" /\ s[2][1] = "Int"
           \/ s[1] = "Let" /\ s[3][1] = "Int"
           \/ s[1] = "Expr" /\ s[2][1] = "Ident"
           \/ /\ s[1] = "Expr"
              /\ s[2][1] = "If"
              /\ s[2][2][1] = "Bool"
              /\ IsPlainBlock(s[2][3])
              /\ (s[2][4] # NoAlt => IsPlainBlock(s[2][4][2]))

\* what running a plain block from `store` comes to, read off the block:
\* the first `return k` reached ("return"), the first unbound name reached
\* ("error"), or neither ("end"); with it, the bindings made on the way
RECURSIVE Walk(_, _, _)
Walk(block, i, store) ==
    IF i > Len(block) THEN [out |-> "end", k |-> 0, store |-> store]
    ELSE LET s == block[i]
         IN CASE s[1] = "Return" -> [out |-> "return", k |-> s[2][2], store |-> store]
              [] s[1] = "Let" -> Walk(block, i + 1, StoreInsert(store, s[2], Integer(s[3][2])))
              [] s[1] = "Expr" /\ s[2][1] = "Ident" ->
                    IF s[2][2] \in DOMAIN store \cup BuiltinNames
                    THEN Walk(block, i + 1, store)
                    ELSE [out |-> "error", k |-> 0, store |-> store]
              [] OTHER ->
                    LET chosen == IF s[2][2][2] THEN s[2][3]
                                  ELSE IF s[2][4] = NoAlt THEN <<>>
                                  ELSE s[2][4][2]
                        sub == Walk(chosen, 1, store)
                    IN IF sub.out = "end" THEN Walk(block, i + 1, sub.store) ELSE sub

IsCallOfBody(src) ==
    /\ Len(src) = 1
    /\ src[1][1] = "Expr"
    /\ src[1][2][1] = "Call"
    /\ src[1][2][2][1] = "Fn"
    /\ src[1][2][2][2] = <<>>
    /\ src[1][2][3] = <<>>

\* C1: as soon as a statement yields a ReturnValue-tagged value, eval_program
\* returns that value and evaluates no later statement: the call returns what
\* that statement returned and leaves the environments as that statement left
\* them.  For a block of returns, lets, unbound names and nested ifs the value
\* is that of the first `return k` reached, through every enclosing if block,
\* at the top level (tagged) and in a function body (untagged by the call),
\* and only the lets before it have taken effect.
C1_ReturnShortCircuits ==
    nlines > 0 =>
        /\ LET f == FirstTagged(line, 1, prevHeap)
           IN f.found => (result = [st |-> "ok", v |-> f.v] /\ heap = f.h)
        /\ IsPlainBlock(line) =>
                LET w == Walk(line, 1, prevHeap[1].store)
                IN w.out = "return" =>
                        /\ result = [st |-> "ok", v |-> ReturnValue(Integer(w.k))]
                        /\ heap[1].store = w.store
                        /\ Len(heap) = Len(prevHeap)
        /\ (nlines = 1 /\ IsCallOfBody(line) /\ IsPlainBlock(line[1][2][2][3])) =>
                LET w == Walk(line[1][2][2][3], 1, EmptyStore)
                IN w.out = "return" =>
                        /\ result = [st |-> "ok", v |-> Integer(w.k)]
                        /\ heap[1] = prevHeap[1]
                        /\ heap[Len(heap)].store = w.store

\* if (true) { if (true) { return 1; } return MaxValue; } let z = MaxValue;  has returned the
\* tagged 1 and z is not bound
C1_Witness ==
    /\ line = << Expr(IfExpr(BooleanLiteral(TRUE),
                    << Expr(IfExpr(BooleanLiteral(TRUE), <<Return(IntegerLiteral(1))>>, NoAlt)),
                       Return(IntegerLiteral(MaxValue)) >>, NoAlt)),
                 Let("z", IntegerLiteral(MaxValue)) >>
    /\ result = [st |-> "ok", v |-> ReturnValue(Integer(1))]
    /\ "z" \notin DOMAIN heap[1].store

\* what each closure program must come to under lexical scoping
ClosureResult(shape, a, b) ==
    CASE shape = "param" -> [st |-> "ok", v |-> Integer(a)]
      [] shape = "local" -> [st |-> "ok", v |-> Integer(a + b)]
      [] shape = "adder" -> [st |-> "ok", v |-> Integer(a + b)]
      [] shape = "fresh" -> [st |-> "err", v |-> Error("identifier not found: t")]

\* C2: a function body runs in a fresh environment whose parent is the
\* environment the function literal was evaluated in, never the caller's: a
\* free identifier of the body resolves to the binding of the defining chain
\* although the calling environment binds the name differently, the call
\* leaves the caller's and the defining environment's bindings of the name
\* alone, and a second call does not see the locals of the first.
C2_LexicalScope ==
    \A shape \in ClosureShapes : \A a \in 0..MaxValue : \A b \in 0..MaxValue :
        line = ClosureLine(shape, a, b) =>
            /\ result = ClosureResult(shape, a, b)
            /\ Len(heap) = Len(prevHeap) + 2
            /\ \A e \in (Len(prevHeap) + 1)..Len(heap) : heap[e].outer \in 1..(e - 1)
            /\ shape \in {"param", "local"} =>
                    /\ heap[1].store["x"] = Integer(a)
                    /\ heap[Len(heap) - 1].store["x"] = Integer(b)
                    /\ heap[Len(heap)].outer = 1
            /\ shape = "adder" =>
                    /\ heap[1].store["x"] = Integer(b)
                    /\ heap[Len(heap) - 1].store["x"] = Integer(a)
                    /\ heap[Len(heap)].outer = Len(heap) - 1

\* let x = 1; let f = fn() { x }; let g = fn(x) { f() }; g(2)  has returned 1
C2_Witness ==
    /\ line = ClosureLine("param", 1, 2)
    /\ result = [st |-> "ok", v |-> Integer(1)]
    /\ heap[Len(heap) - 1].store["x"] = Integer(2)

\* C3: the value returned by applying a Function is never ReturnValue-tagged,
\* however return statements and if blocks are nested in its body: a line
\* fn() { body }() that evaluates without error has an untagged value.
C3_CallResultUntagged ==
    (nlines > 0 /\ IsCallOfBody(line) /\ result.st = "ok") => result.v[1] # "ReturnValue"

IsArityMismatch(src) ==
    /\ Len(src) = 2
    /\ src[1][1] = "Let"
    /\ src[1][3][1] = "Fn"
    /\ src[2][1] = "Expr"
    /\ src[2][2][1] = "Call"
    /\ src[2][2][2] = Ident(src[1][2])
    /\ Len(src[2][2][3]) # Len(src[1][3][2])
    /\ \A i \in 1..Len(src[2][2][3]) : src[2][2][3][i][1] = "Int"

\* C9: applying a Function to fewer or more arguments than it has parameters
\* fails with an error returned through the Result channel, before any
\* parameter is bound and before the body is evaluated: no environment is
\* created for the call.
C9_ArityMismatchIsError ==
    (nlines > 0 /\ IsArityMismatch(line)) =>
        /\ result.st = "err"
        /\ Len(heap) = Len(prevHeap)

IsDivisionByZero(src) ==
    /\ Len(src) = 1
    /\ src[1][1] = "Expr"
    /\ src[1][2][1] = "Infix"
    /\ src[1][2][2] = "/"
    /\ src[1][2][4] = IntegerLiteral(0)
    /\ \/ src[1][2][3][1] = "Int"
       \/ src[1][2][3][1] = "Prefix" /\ src[1][2][3][2] = "-" /\ src[1][2][3][3][1] = "Int"

\* C10: Integer / Integer with a right operand of 0 returns an error through
\* the Result channel; the evaluator does not abort.
C10_DivisionByZeroIsError ==
    (nlines > 0 /\ IsDivisionByZero(line)) => result.st = "err"

\* the names of the `let` statements of a block (what = "block"), a
\* statement or an expression that are evaluated in the environment the
\* block itself is evaluated in: all of them but those of function bodies
RECURSIVE LetNames(_, _)
LetNames(what, node) ==
    CASE what = "block" -> UNION { LetNames("stmt", node[i]) : i \in 1..Len(node) }
      [] what = "stmt" /\ node[1] = "Let" -> {node[2]} \cup LetNames("expr", node[3])
      [] what = "stmt" /\ node[1] \in {"Return", "Expr"} -> LetNames("expr", node[2])
      [] what = "expr" /\ node[1] = "Prefix" -> LetNames("expr", node[3])
      [] what = "expr" /\ node[1] = "Infix" ->
            LetNames("expr", node[3]) \cup LetNames("expr", node[4])
      [] what = "expr" /\ node[1] = "If" ->
            LetNames("expr", node[2]) \cup LetNames("block", node[3])
            \cup (IF node[4] = NoAlt THEN {} ELSE LetNames("block", node[4][2]))
      [] what = "expr" /\ node[1] = "Call" ->
            LetNames("expr", node[2]) \cup LetNames("block", node[3])
      [] what = "expr" /\ node[1] = "Array" -> LetNames("block", node[2])
      [] what = "expr" /\ node[1] = "Index" ->
            LetNames("expr", node[2]) \cup LetNames("expr", node[3])
      [] what = "expr" /\ node[1] = "Hash" ->
            UNION { LetNames("expr", node[2][i][1]) \cup LetNames("expr", node[2][i][2]) :
                        i \in 1..Len(node[2]) }
      [] OTHER -> {}

\* the environments of `before` are those of `after`, but for bindings of
\* the names `changed` in environment `env`
SameBut(before, after, env, changed) ==
    /\ Len(after) >= Len(before)
    /\ \A e \in 1..Len(before) :
          /\ after[e].outer = before[e].outer
          /\ DOMAIN before[e].store \subseteq DOMAIN after[e].store
          /\ DOMAIN after[e].store
                \subseteq DOMAIN before[e].store \cup (IF e = env THEN changed ELSE {})
          /\ \A n \in DOMAIN before[e].store :
                (e = env /\ n \in changed) \/ after[e].store[n] = before[e].store[n]

IsSingleLet(src) == Len(src) = 1 /\ src[1][1] = "Let"

\* C14: `let name = value` evaluates to Null and binds `name` in the
\* environment it is evaluated in; no other binding of that environment and
\* no binding of any other environment changes, an outer binding of the same
\* name included.
C14_LetChangesOnlyItsName ==
    nlines > 0 =>
        /\ SameBut(prevHeap, heap, 1, LetNames("block", line))
        /\ (IsSingleLet(line) /\ result.st = "ok") =>
              /\ result.v = Null
              /\ line[1][2] \in DOMAIN heap[1].store
              /\ heap[1].store[line[1][2]] = eval_expression(line[1][3], 1, prevHeap, 0).v
        /\ \A i \in 1..Len(line) :
              ( /\ line[i][1] = "Let"
                /\ line[i][3][1] = "Int"
                /\ \A j \in 1..Len(line) : j # i => line[i][2] \notin LetNames("stmt", line[j])
                /\ result.st = "ok"
                /\ result.v[1] # "ReturnValue" )
              => heap[1].store[line[i][2]] = Integer(line[i][3][2])

\* g() was called on `let x = a; ..; let g = fn() { let x = b; f(b) }` with
\* a # b: the call's environment binds x to b, the REPL's still to a
C14_Witness ==
    /\ nlines = 2
    /\ line = <<Expr(CallExpr(Ident("g"), <<>>))>>
    /\ result.st = "ok"
    /\ "x" \in DOMAIN heap[1].store
    /\ \E e \in (Len(prevHeap) + 1)..Len(heap) :
          /\ heap[e].outer = 1
          /\ "x" \in DOMAIN heap[e].store
          /\ heap[e].store["x"] # heap[1].store["x"]

\* what a SharedLine evaluates to when the function sees the bindings its
\* environment has at the time of the call
SharedResult(shape, a, b) ==
    CASE shape \in {"later", "self"} -> Integer(a)
      [] shape = "rebind" -> Integer(b)
      [] shape = "two" -> Array(<<Integer(a), Integer(a)>>)

\* C15: a Function holds the environment it was created in, not a copy: a
\* `let` made there afterwards is seen by later calls, a function bound by
\* `let` can call itself by its name, and two functions created in one
\* environment see the same bindings.
C15_CapturedEnvironmentShared ==
    \A shape \in SharedShapes : \A a, b \in 0..MaxValue :
        (nlines > 0 /\ line = SharedLine(shape, a, b)) =>
            /\ result.st = "ok"
            /\ result.v = SharedResult(shape, a, b)
            /\ \A n \in DOMAIN heap[1].store :
                  heap[1].store[n][1] = "Function" => heap[1].store[n][4] = 1

\* let y = 0; let f = fn() { y }; let y = MaxValue; f() has returned MaxValue
C15_Witness ==
    /\ line = SharedLine("rebind", 0, MaxValue)
    /\ result = [st |-> "ok", v |-> Integer(MaxValue)]
    /\ heap[1].store["f"][4] = 1

\* what a ScopeLine comes to when a name is looked up in the innermost scope
\* first, then outwards, then among the builtins
ScopeResult(shape, name, a, b) ==
    CASE shape \in {"parameter", "nested"} -> [st |-> "ok", v |-> Integer(b)]
      [] shape \in {"outer", "inner let"} -> [st |-> "ok", v |-> Integer(a)]
      [] shape \in {"builtin", "unbound"} ->
            IF name \in {"len", "first", "last", "rest", "push"}
            THEN [st |-> "ok", v |-> IF shape = "builtin" THEN Builtin(name) ELSE Null]
            ELSE [st |-> "err", v |-> Error("identifier not found: " \o name)]

\* C16: an identifier evaluates to the innermost binding of its name in the
\* chain of environments; the builtins are asked only when no scope binds it
\* (a user binding of `len` hides the builtin); a name bound nowhere is the
\* error `identifier not found: <name>`.
C16_InnermostBindingWins ==
    \A shape \in ScopeShapes : \A name \in ScopeNames : \A a, b \in 0..MaxValue :
        (nlines > 0 /\ line = ScopeLine(shape, name, a, b)) =>
            result = ScopeResult(shape, name, a, b)

\* let len = MaxValue; fn(y) { len }(0) has returned MaxValue, not the builtin
C16_Witness ==
    /\ line = ScopeLine("outer", "len", MaxValue, 0)
    /\ result = [st |-> "ok", v |-> Integer(MaxValue)]
    /\ Len(heap) = 2
    /\ "len" \notin DOMAIN heap[2].store

\* the type name of the value of an operand, read off the expression
\* (Object::type prints a Builtin's name as BUITLIN)
OperandTag(expression) ==
    CASE expression[1] = "Int" -> "INTEGER"
      [] expression[1] = "Bool" -> "BOOLEAN"
      [] expression[1] = "Str" -> "STRING"
      [] expression[1] = "Array" -> "ARRAY"
      [] expression[1] = "Hash" -> "HASH"
      [] expression[1] = "Fn" -> "FUNCTION"
      [] expression[1] = "Ident" -> "BUITLIN"
      [] expression[1] = "If" -> "NULL"

IsOperatorLine(src) ==
    /\ Len(src) = 1
    /\ src[1][1] = "Expr"
    /\ src[1][2][1] = "Infix"
    /\ src[1][2][3] \in Operands
    /\ src[1][2][4] \in Operands

\* C17: an infix expression on operands of different types fails with
\* `type mismatch: L op R`, whatever the operator; `unknown operator` is the
\* failure of operands of one type only.
C17_TypeMismatchFirst ==
    (nlines = 1 /\ IsOperatorLine(line)) =>
        LET operator == line[1][2][2]
            L == OperandTag(line[1][2][3])
            R == OperandTag(line[1][2][4])
        IN /\ L # R =>
                result = [st |-> "err",
                          v |-> Error("type mismatch: " \o L \o " " \o operator \o " " \o R)]
           /\ L = R =>
                \/ result.st = "ok"
                \/ result = [st |-> "err",
                             v |-> Error("unknown operator: " \o L \o " " \o operator \o " " \o R)]

\* 1 == true has failed with a type mismatch
C17_Witness ==
    /\ line = <<Expr(InfixExpr("==", IntegerLiteral(1), BooleanLiteral(TRUE)))>>
    /\ result = [st |-> "err", v |-> Error("type mismatch: INTEGER == BOOLEAN")]

\* the conditions whose value is Boolean(false) or Null
Falsy(v) == v = BooleanLiteral(FALSE) \/ v[1] = "If"

\* C18: !v is true exactly when v is false or Null; `if (v)` takes its
\* consequence exactly when !v is false, so 0 and "" are truthy; and an
\* `if` without else on a falsy condition is Null.
C18_OnlyFalseAndNullAreFalsy ==
    \A v \in Conditions :
        /\ (nlines = 1 /\ line = TruthLine("bang", v)) =>
              result = [st |-> "ok", v |-> Boolean(Falsy(v))]
        /\ (nlines = 1 /\ line = TruthLine("if", v)) =>
              result = [st |-> "ok", v |-> IF Falsy(v) THEN Null ELSE Integer(1)]
        /\ (nlines = 1 /\ line = TruthLine("if else", v)) =>
              result = [st |-> "ok", v |-> IF Falsy(v) THEN Integer(2) ELSE Integer(1)]

\* if (0) { 1 } else { 2 } has taken the consequence
C18_Witness ==
    /\ line = TruthLine("if else", IntegerLiteral(0))
    /\ result = [st |-> "ok", v |-> Integer(1)]

\* the value {"k": 1, true: 2, 1: 3} holds under a key, Null if none
SomeHashAt(key) ==
    CASE key = StringLiteral("k") -> Integer(1)
      [] key = BooleanLiteral(TRUE) -> Integer(2)
      [] key = IntegerLiteral(1) -> Integer(3)
      [] OTHER -> Null

\* C19: indexing does not fail on a miss.  An Array indexed below 0 or at or
\* beyond its length is Null, whatever the index when the array is empty; a
\* Hash indexed with a hashable key it does not hold is Null; an index in
\* range yields the element.
C19_IndexMissIsNull ==
    /\ \A n \in 0..MaxArity : \A i \in (-1)..MaxArity :
          (nlines = 1 /\ line = ArrayIndexLine(n, i)) =>
              result = [st |-> "ok", v |-> IF 0 <= i /\ i < n THEN Integer(i + 1) ELSE Null]
    /\ \A key \in HashableKeys :
          /\ (nlines = 1 /\ line = HashIndexLine(SomeHash, key)) =>
                result = [st |-> "ok", v |-> SomeHashAt(key)]
          /\ (nlines = 1 /\ line = HashIndexLine(HashLiteral(<<>>), key)) =>
                result = [st |-> "ok", v |-> Null]

HashableTags == {"INTEGER", "BOOLEAN", "STRING"}

\* C20: only Integer, Boolean and String values are hashed.  A hash literal
\* with a key of another type fails with `.. cannot be used as a key`, an
\* index into a Hash with such a value fails with `unusable as hash key:
\* <TYPE>`, and the panicking branch of Object's Hash is never reached.
C20_OnlyHashableKeysHashed ==
    /\ result.v # Error(HashPanicMessage)
    /\ \A key \in Operands :
          LET tag == OperandTag(key)
          IN /\ \A shape \in {"literal", "second"} :
                   (nlines = 1 /\ line = HashKeyLine(shape, key)) =>
                       IF tag \in HashableTags
                       THEN result.st = "ok" /\ result.v[1] = "Hash"
                       ELSE result = [st |-> "err",
                                      v |-> Error("Type of " \o tag \o " cannot be used as a key")]
             /\ \A shape \in {"index", "index empty"} :
                   (nlines = 1 /\ line = HashKeyLine(shape, key)) =>
                       IF tag \in HashableTags
                       THEN result.st = "ok"
                       ELSE result = [st |-> "err",
                                      v |-> Error("unusable as hash key: " \o tag)]

\* {0: 1, []: 2} has failed as a whole, on its second key
C20_Witness ==
    /\ line = HashKeyLine("second", ArrayLiteral(<<>>))
    /\ result = [st |-> "err", v |-> Error("Type of ARRAY cannot be used as a key")]

\* the Array of the integers first .. last
Integers(first, last) == Array([k \in 1..(last - first + 1) |-> Integer(first + k - 1)])

\* C21: push and rest leave their argument alone.  After push(a, v) or
\* rest(a) every binding of the array a still holds the elements it held;
\* push returns a with v appended and rest of a non-empty a returns a
\* without its first element.
C21_PushAndRestCopy ==
    \A n \in 0..MaxArity : \A v \in 0..MaxValue :
        /\ (nlines = 1 /\ line = CopyLine("push", n, v)) =>
              /\ result = [st |-> "ok",
                           v |-> Array(<< Integers(1, n), Integers(1, n),
                                          Array(Integers(1, n)[2] \o <<Integer(v)>>) >>)]
              /\ heap[1].store["a"] = Integers(1, n)
              /\ heap[1].store["c"] = Integers(1, n)
        /\ (nlines = 1 /\ line = CopyLine("rest", n, v) /\ n > 0) =>
              /\ result = [st |-> "ok",
                           v |-> Array(<<Integers(1, n), Integers(1, n), Integers(2, n)>>)]
              /\ heap[1].store["a"] = Integers(1, n)
              /\ heap[1].store["c"] = Integers(1, n)

\* let a = [1]; let c = a; let b = push(a, 0); [a, c, b] has given
\* [[1], [1], [1, 0]]
C21_Witness ==
    /\ line = CopyLine("push", 1, 0)
    /\ result.st = "ok"
    /\ result.v = Array(<< Array(<<Integer(1)>>), Array(<<Integer(1)>>),
                           Array(<<Integer(1), Integer(0)>>) >>)

\* the number of arguments a builtin asks for
WantedArguments(name) == IF name = "push" THEN 2 ELSE 1

\* the argument expression gives a value the builtin works on
SupportedArgument(name, argument) ==
    \/ argument[1] = "Array"
    \/ name = "len" /\ argument[1] = "Str"

\* C22: a builtin called with the wrong number of arguments, or with an
\* argument of a type it does not support, returns an error and never
\* panics, and the count is judged before any argument is; first, last and
\* rest of the empty array are Null.
C22_BuiltinsReportErrors ==
    \A name \in ArrayBuiltins : \A arguments \in ArgumentLists :
        (nlines = 1 /\ line = BuiltinCallLine(name, arguments)) =>
            /\ result.st # "panic"
            /\ Len(arguments) # WantedArguments(name) =>
                  result = [st |-> "err",
                            v |-> WrongNumberOfArguments(Len(arguments), WantedArguments(name))]
            /\ (Len(arguments) = WantedArguments(name)
                    /\ ~SupportedArgument(name, arguments[1])) =>
                  (result.st = "err"
                     /\ result.v # WrongNumberOfArguments(Len(arguments), WantedArguments(name)))
            /\ (Len(arguments) = WantedArguments(name)
                    /\ SupportedArgument(name, arguments[1])) => result.st = "ok"
            /\ (name \in {"first", "last", "rest"} /\ arguments = <<ArrayLiteral(<<>>)>>) =>
                  result = [st |-> "ok", v |-> Null]

\* first() has been refused for its number of arguments
C22_Witness ==
    /\ line = BuiltinCallLine("first", <<>>)
    /\ result = [st |-> "err", v |-> WrongNumberOfArguments(0, 1)]

\* C23: what let has bound during one eval call is there for every later
\* eval call on the same Environment, also when the call ended with an
\* error after the let: the bindings made before the error stay, nothing
\* after it is bound, and the next call runs as on any other environment.
C23_BindingsOutliveErrors ==
    /\ [](\A v \in 0..MaxValue : \A abort \in Aborts :
            (nlines = 1 /\ line = AbortedLine(v, abort)) =>
                /\ result.st = "err"
                /\ heap[1].store = StoreInsert(EmptyStore, "z", Integer(v)))
    /\ [][(line' = <<Expr(Ident("z"))>> /\ result.st = "err" /\ "z" \in DOMAIN heap[1].store)
             => (result' = [st |-> "ok", v |-> heap[1].store["z"]] /\ heap' = heap)]_vars
    /\ [][(line' = <<Expr(InfixExpr("+", Ident("z"), IntegerLiteral(1)))>>
              /\ result.st = "err" /\ "z" \in DOMAIN heap[1].store
              /\ heap[1].store["z"][1] = "Integer")
             => (result' = [st |-> "ok", v |-> Integer(heap[1].store["z"][2] + 1)]
                   /\ heap' = heap)]_vars

\* the call before the last ended with an error after let z = 2, and z has
\* now given 2
C23_Witness ==
    /\ nlines = 2
    /\ prevStatus = "err"
    /\ prevHeap[1].store = StoreInsert(EmptyStore, "z", Integer(2))
    /\ line = <<Expr(Ident("z"))>>
    /\ result = [st |-> "ok", v |-> Integer(2)]

\* 1 when the argument is a call of g, whose body runs in an environment of
\* its own
BodiesRun(argument) == IF argument[1] = "Call" THEN 1 ELSE 0

\* what callee(first, second) gives when the callee goes first, the
\* arguments follow from the left and the application comes last: the
\* result, and the number of function bodies that have run
CallOrderResult(callee, first, second) ==
    CASE callee = Ident("c") ->
            [st |-> "err", v |-> Error("identifier not found: c"), bodies |-> 0]
      [] callee # Ident("c") /\ first = Ident("a") ->
            [st |-> "err", v |-> Error("identifier not found: a"), bodies |-> 0]
      [] callee # Ident("c") /\ first # Ident("a") /\ second = Ident("b") ->
            [st |-> "err", v |-> Error("identifier not found: b"), bodies |-> BodiesRun(first)]
      [] OTHER ->
            IF callee = IntegerLiteral(1)
            THEN [st |-> "err", v |-> Error("not a function: INTEGER"),
                  bodies |-> BodiesRun(first) + BodiesRun(second)]
            ELSE [st |-> "ok", v |-> Integer(1),
                  bodies |-> BodiesRun(first) + BodiesRun(second) + 1]

\* C25: a call evaluates its callee, then its arguments from left to right,
\* then applies the function.  The first error is the call's result: no
\* argument after it is evaluated and the body does not run; a callee that
\* is neither Function nor Builtin fails with `not a function: <TYPE>` once
\* the arguments are evaluated.
C25_CalleeThenArgumentsThenBody ==
    \A callee \in Callees : \A first \in ArgumentsAt(1) : \A second \in ArgumentsAt(2) :
        (nlines = 1 /\ line = CallOrderLine(callee, first, second)) =>
            LET expected == CallOrderResult(callee, first, second)
            IN /\ result = [st |-> expected.st, v |-> expected.v]
               /\ Len(heap) = 1 + expected.bodies

\* f(g(), b) has failed on b after the body of g has run, and the body of f
\* has not
C25_Witness ==
    /\ line = CallOrderLine(Ident("f"), CallExpr(Ident("g"), <<>>), Ident("b"))
    /\ result = [st |-> "err", v |-> Error("identifier not found: b")]
    /\ Len(heap) = 2

\* C28: no value bound in an Environment is ReturnValue-tagged, and a return
\* reached while the value of a let, an argument, an element or an operand
\* is evaluated ends the enclosing function: the function called on an
\* EscapeLine returns the returned v, and the let of an EscapeTopLine binds
\* nothing.
C28_ReturnValueNeverStored ==
    /\ \A e \in 1..Len(heap) : \A n \in DOMAIN heap[e].store :
          heap[e].store[n][1] # "ReturnValue"
    /\ \A v \in 1..MaxValue :
          /\ \A shape \in EscapeShapes :
                (nlines = 1 /\ line = EscapeLine(shape, v)) =>
                    result = [st |-> "ok", v |-> Integer(v)]
          /\ (nlines = 1 /\ line = EscapeTopLine(v)) => "x" \notin DOMAIN heap[1].store

\* C29: no borrow of an Environment's RefCell is refused.  The mutable borrow
\* a let takes meets no other borrow of the same Environment, every borrow is
\* given back when the eval call is over, and every Environment's outer is
\* one that was created before it, so a lookup walks a finite chain; with
\* rebinding, recursion and closures the lets and lookups give their values.
C29_BorrowsNeverOverlap ==
    /\ result.v \notin {Error(AlreadyBorrowed), Error(AlreadyMutablyBorrowed)}
    /\ \A e \in 1..Len(heap) : heap[e].borrow = 0 /\ heap[e].outer \in 0..(e - 1)
    /\ \A v \in 0..MaxValue :
          /\ (nlines = 1 /\ line = BorrowLine("rebind", v)) =>
                result = [st |-> "ok", v |-> Integer(v + 1)]
          /\ (nlines = 1 /\ line = BorrowLine("recursion", v)) =>
                result = [st |-> "ok", v |-> Integer(v)]
          /\ (nlines = 1 /\ line = BorrowLine("closure", v)) =>
                result = [st |-> "ok", v |-> Integer(v + 1)]

\* f(2) has called itself down to f(0): each of the three calls has bound y
\* in an environment of its own and found x two or more environments out
C29_Witness ==
    /\ line = BorrowLine("recursion", 1)
    /\ result = [st |-> "ok", v |-> Integer(1)]
    /\ Len(heap) = 4
    /\ \A e \in 2..4 : "y" \in DOMAIN heap[e].store /\ heap[e].outer = 1

----------------------------------------------------------------------------
(* The lexer: src/lexer.rs.  The source is a sequence of characters; the   *)
(* cursor counts characters (chars().nth), a slice `input[a..b]` counts    *)
(* bytes of the UTF-8 encoding.                                            *)

MaxSource == 3      \* longest source, in characters
MaxEofCalls == 2    \* next_token calls followed after the end of the source

Quote == "\""
NonAscii == "é"
SourceAlphabet == {Quote, "f", "i", "1", " ", "=", "!", NonAscii}

\* char::len_utf8
Utf8Len(c) == IF c = NonAscii THEN 2 ELSE 1

\* char::is_ascii_whitespace, char::is_ascii_alphabetic, char::is_ascii_digit
IsAsciiWhitespace(c) == c = " "
IsAsciiAlphabetic(c) == c \in {"e", "f", "i", "l", "n", "r", "s", "t", "u"}
IsAsciiDigit(c) == c = "1"

is_letter(character) == IsAsciiAlphabetic(character) \/ character = "_"
is_digit(character) == IsAsciiDigit(character)

\* self.input.chars().nth(n)
CharsNth(src, n) == IF n < Len(src) THEN SomeChar(src[n + 1]) ELSE NoChar

RECURSIVE ByteOffset(_, _)
\* the byte offset at which the character of index n begins
ByteOffset(src, n) == IF n = 0 THEN 0 ELSE ByteOffset(src, n - 1) + Utf8Len(src[n])

ByteLen(src) == ByteOffset(src, Len(src))

\* str::is_char_boundary
IsCharBoundary(src, b) == \E n \in 0..Len(src) : ByteOffset(src, n) = b

CharIndexAt(src, b) == CHOOSE n \in 0..Len(src) : ByteOffset(src, n) = b

\* &self.input[a..b]: the characters between two byte offsets, or a panic
StrSlice(src, a, b) ==
    IF a > b \/ b > ByteLen(src) \/ ~IsCharBoundary(src, a) \/ ~IsCharBoundary(src, b)
    THEN <<"Panic">>
    ELSE <<"Ok", SubSeq(src, CharIndexAt(src, a) + 1, CharIndexAt(src, b))>>

\* the UTF-8 encoding, byte k of character c written <<c, k>>
RECURSIVE Utf8Bytes(_)
Utf8Bytes(chars) ==
    IF chars = <<>> THEN <<>>
    ELSE [k \in 1..Utf8Len(Head(chars)) |-> <<Head(chars), k>>] \o Utf8Bytes(Tail(chars))

\* Lexer::read_char
read_char(src, l) ==
    [position |-> l.read_position,
     read_position |-> l.read_position + 1,
     ch |-> IF l.read_position >= Len(src) THEN NoChar ELSE CharsNth(src, l.read_position)]

\* Lexer::peek_char
peek_char(src, l) == CharsNth(src, l.read_position)

\* Lexer::new
LexerNew(src) == read_char(src, [position |-> 0, read_position |-> 0, ch |-> NoChar])

RECURSIVE skip_whitespace(_, _)
\* Lexer::skip_whitespace
skip_whitespace(src, l) ==
    IF l.ch # NoChar /\ IsAsciiWhitespace(l.ch[2])
    THEN skip_whitespace(src, read_char(src, l))
    ELSE l

\* Token::new
TokenNew(kind, text, start, end) ==
    [kind |-> kind, text |-> text, span |-> [start |-> start, end |-> end]]

\* TokenKind::lookup_ident
lookup_ident(ident) ==
    CASE ident = <<"f", "n">> -> "Function"
      [] ident = <<"l", "e", "t">> -> "Let"
      [] ident = <<"t", "r", "u", "e">> -> "True"
      [] ident = <<"f", "a", "l", "s", "e">> -> "False"
      [] ident = <<"i", "f">> -> "If"
      [] ident = <<"e", "l", "s", "e">> -> "Else"
      [] ident = <<"r", "e", "t", "u", "r", "n">> -> "Return"
      [] OTHER -> "Ident"

\* the one-character arms of next_token's match
Punctuation(c) ==
    CASE c = "=" -> "Assign"
      [] c = "+" -> "Plus"
      [] c = "-" -> "Minus"
      [] c = "!" -> "Bang"
      [] c = "/" -> "Slash"
      [] c = "*" -> "Asterisk"
      [] c = "<" -> "LessThan"
      [] c = ">" -> "GreaterThan"
      [] c = ";" -> "Semicolon"
      [] c = "," -> "Comma"
      [] c = "(" -> "LParen"
      [] c = ")" -> "RParen"
      [] c = "{" -> "LBrace"
      [] c = "}" -> "RBrace"
      [] c = "[" -> "LBracket"
      [] c = "]" -> "RBracket"
      [] OTHER -> "Illegal"

\* what a next_token call comes to: a token and the cursor after it, a
\* panic, or a read_string loop that is still running
LexOk(tok, l) == [st |-> "ok", tok |-> tok, l |-> l]
LexPanic(l) == [st |-> "panic", tok |-> NoToken, l |-> l]
LexScanning(l) == [st |-> "scanning", tok |-> NoToken, l |-> l]

RECURSIVE ReadRun(_, _, _)
\* the `while self.ch.is_some_and(..) { self.read_char() }` of
\* read_identfier (letters = TRUE) and read_number (letters = FALSE)
ReadRun(src, l, letters) ==
    IF l.ch # NoChar /\ (IF letters THEN is_letter(l.ch[2]) ELSE is_digit(l.ch[2]))
    THEN ReadRun(src, read_char(src, l), letters)
    ELSE l

\* Lexer::read_identfier, with next_token's lookup_ident and early return
read_identfier(src, l) ==
    LET current_position == l.position
        l1 == ReadRun(src, l, TRUE)
        slice == StrSlice(src, current_position, l1.position)
    IN IF slice[1] = "Panic" THEN LexPanic(l1)
       ELSE LexOk(TokenNew(lookup_ident(slice[2]),
                           IF lookup_ident(slice[2]) = "Ident" THEN slice[2] ELSE <<>>,
                           current_position, l1.position - 1), l1)

\* Lexer::read_number, with next_token's early return
read_number(src, l) ==
    LET current_position == l.position
        l1 == ReadRun(src, l, FALSE)
        slice == StrSlice(src, current_position, l1.position)
    IN IF slice[1] = "Panic" THEN LexPanic(l1)
       ELSE LexOk(TokenNew("Int", slice[2], current_position, l1.position - 1), l1)

RECURSIVE ReadStringLoop(_, _)
\* read_string's `loop`: it ends at the next quote and at nothing else.  Once
\* the cursor is past the last character every read_char yields None, so
\* the loop is still running after any number of iterations (the cursor
\* would have to wrap around usize to see a character again).
ReadStringLoop(src, l) ==
    LET l1 == read_char(src, l)
    IN IF l1.ch = SomeChar(Quote) THEN [found |-> TRUE, l |-> l1]
       ELSE IF l1.ch = NoChar THEN [found |-> FALSE, l |-> l1]
       ELSE ReadStringLoop(src, l1)

\* Lexer::read_string, with the read_char that ends next_token
read_string(src, l) ==
    LET current_position == l.position + 1
        scan == ReadStringLoop(src, l)
        slice == StrSlice(src, current_position, scan.l.position)
    IN IF ~scan.found THEN LexScanning(scan.l)
       ELSE IF slice[1] = "Panic" THEN LexPanic(scan.l)
       ELSE LexOk(TokenNew("String", slice[2], current_position - 1, scan.l.position),
                  read_char(src, scan.l))

\* Lexer::next_token
next_token(src, l0) ==
    LET l == skip_whitespace(src, l0)
        c == l.ch[2]
    IN CASE l.ch = NoChar ->
              LexOk(TokenNew("Eof", <<>>, l.position, l.position), read_char(src, l))
         [] l.ch # NoChar /\ c = "=" /\ peek_char(src, l) = SomeChar("=") ->
              LexOk(TokenNew("Equal", <<>>, l.position, read_char(src, l).position),
                    read_char(src, read_char(src, l)))
         [] l.ch # NoChar /\ c = "!" /\ peek_char(src, l) = SomeChar("=") ->
              LexOk(TokenNew("NotEqual", <<>>, l.position, read_char(src, l).position),
                    read_char(src, read_char(src, l)))
         [] l.ch # NoChar /\ c = Quote -> read_string(src, l)
         [] l.ch # NoChar /\ is_letter(c) -> read_identfier(src, l)
         [] l.ch # NoChar /\ is_digit(c) -> read_number(src, l)
         [] OTHER ->
              LexOk(TokenNew(Punctuation(c), <<>>, l.position, l.position), read_char(src, l))

----------------------------------------------------------------------------
(* The lexer's specification: Lexer::new on a source, then next_token      *)
(* called again and again, as Parser::next_token does.                     *)

InitLex ==
    /\ LexerIdle
    /\ ParserIdle
    /\ EvalIdle
    /\ EditorIdle

\* Lexer::new(source)
New ==
    /\ lstatus = "idle"
    /\ \E n \in 0..MaxSource : input' \in [1..n -> SourceAlphabet]
    /\ lexer' = LexerNew(input')
    /\ lstatus' = "ready"
    /\ UNCHANGED <<token, parserVars, evalVars, editVars>>

CanCall ==
    /\ lstatus \in {"ready", "returned"}
    /\ lexer.read_position <= Len(input) + MaxEofCalls

NextTokenReturns ==
    /\ CanCall
    /\ LET r == next_token(input, lexer)
       IN /\ r.st = "ok"
          /\ token' = r.tok
          /\ lexer' = r.l
    /\ lstatus' = "returned"
    /\ UNCHANGED <<input, parserVars, evalVars, editVars>>

NextTokenPanics ==
    /\ CanCall
    /\ LET r == next_token(input, lexer)
       IN /\ r.st = "panic"
          /\ lexer' = r.l
    /\ lstatus' = "panicked"
    /\ UNCHANGED <<input, token, parserVars, evalVars, editVars>>

NextTokenScans ==
    /\ CanCall
    /\ LET r == next_token(input, lexer)
       IN /\ r.st = "scanning"
          /\ lexer' = r.l
    /\ lstatus' = "scanning"
    /\ UNCHANGED <<input, token, parserVars, evalVars, editVars>>

NextLex ==
    \/ New
    \/ NextTokenReturns
    \/ NextTokenPanics
    \/ NextTokenScans

SpecLex == InitLex /\ [][NextLex]_vars

\* the caller keeps calling next_token for as long as a call can be made
SpecLexFair == SpecLex /\ WF_vars(NextLex)

----------------------------------------------------------------------------
(* Claims about the lexer, checked under SpecLex and SpecLexFair.          *)

\* C11: a next_token call that meets an opening quote with no closing quote
\* after it comes back (with an error for the unterminated string); it is
\* never left scanning past the end of the source.
C11_UnterminatedStringTerminates == lstatus # "scanning"

QuoteFree == \A k \in 1..Len(input) : input[k] # Quote

EofReturned == lstatus = "returned" /\ token.kind = "Eof"

\* C12: on a source without a quote character, next_token called again and
\* again returns Eof after finitely many calls, and a lexer that has
\* returned Eof returns Eof on every later call.
C12_ReachesEofAndStays ==
    /\ (lstatus = "ready" /\ QuoteFree) ~> EofReturned
    /\ [][EofReturned => EofReturned']_vars

\* impl fmt::Display for TokenKind, as characters
KindText(kind) ==
    CASE kind = "Assign" -> <<"=">>
      [] kind = "Plus" -> <<"+">>
      [] kind = "Minus" -> <<"-">>
      [] kind = "Bang" -> <<"!">>
      [] kind = "Asterisk" -> <<"*">>
      [] kind = "Slash" -> <<"/">>
      [] kind = "LessThan" -> <<"<">>
      [] kind = "GreaterThan" -> <<">">>
      [] kind = "Equal" -> <<"=", "=">>
      [] kind = "NotEqual" -> <<"!", "=">>
      [] kind = "Comma" -> <<",">>
      [] kind = "Semicolon" -> <<";">>
      [] kind = "LParen" -> <<"(">>
      [] kind = "RParen" -> <<")">>
      [] kind = "LBrace" -> <<"{">>
      [] kind = "RBrace" -> <<"}">>
      [] kind = "LBracket" -> <<"[">>
      [] kind = "RBracket" -> <<"]">>
      [] kind = "Function" -> <<"f", "n">>
      [] kind = "Let" -> <<"l", "e", "t">>
      [] kind = "True" -> <<"t", "r", "u", "e">>
      [] kind = "False" -> <<"f", "a", "l", "s", "e">>
      [] kind = "If" -> <<"i", "f">>
      [] kind = "Else" -> <<"e", "l", "s", "e">>
      [] kind = "Return" -> <<"r", "e", "t", "u", "r", "n">>

\* the text a token stands for; a String token's text includes both quotes
TokenText(tok) ==
    CASE tok.kind \in {"Ident", "Int"} -> tok.text
      [] tok.kind = "String" -> <<Quote>> \o tok.text \o <<Quote>>
      [] OTHER -> KindText(tok.kind)

\* the source bytes from offset start to offset end, both included
SourceBytes(src, start, end) == SubSeq(Utf8Bytes(src), start + 1, end + 1)

\* C13: the span of every token other than Eof is an ordered pair of byte
\* offsets into the source, and the source bytes it covers are the token's
\* text, whatever characters the source holds.
C13_SpanCoversTokenText ==
    token.kind \notin {"None", "Eof"} =>
        /\ token.span.start <= token.span.end
        /\ token.span.end < ByteLen(input)
        /\ token.kind # "Illegal" =>
             SourceBytes(input, token.span.start, token.span.end) = Utf8Bytes(TokenText(token))

----------------------------------------------------------------------------
(* The line editor of the browser REPL: wasm/src/line_editor.rs.  `buffer`  *)
(* is a String and `cursor` a usize that the editor uses both as a byte     *)
(* offset (String::insert, the slices of word_left and word_right, the      *)
(* comparisons with buffer.len()) and as a number of characters (the take   *)
(* and skip of the delete operations).  A usize that has wrapped around is  *)
(* written as the negative number it is congruent to, so -1 is usize::MAX.  *)

MaxBuffer == 3      \* longest buffer, in characters

\* the characters parse_key_event makes of the first byte of the input: an
\* ASCII byte is its character, the lead byte of a longer UTF-8 sequence
\* becomes the Latin-1 character of that number, two bytes long in a String
KeyChars == {"a", " ", NonAscii}

\* a < b on usize
UsizeLess(a, b) ==
    \/ a >= 0 /\ b >= 0 /\ a < b
    \/ a >= 0 /\ b < 0
    \/ a < 0 /\ b < 0 /\ a < b

\* a + b on usize leaves the range of usize
AddOverflows(a, b) ==
    \/ a < 0 /\ b < 0
    \/ (a < 0 \/ b < 0) /\ a + b >= 0

\* chars().take(n) and chars().skip(n)
TakeChars(s, n) == IF n < 0 \/ n >= Len(s) THEN s ELSE SubSeq(s, 1, n)
SkipChars(s, n) == IF n < 0 \/ n >= Len(s) THEN <<>> ELSE SubSeq(s, n + 1, Len(s))

\* str::find(' ') and str::rfind(' '): the byte offset of the first and of
\* the last space, <<"None">> without one
Find(s) ==
    IF \E i \in 1..Len(s) : s[i] = " "
    THEN <<"Some", ByteOffset(s, (CHOOSE i \in 1..Len(s) :
                        s[i] = " " /\ \A j \in 1..(i - 1) : s[j] # " ") - 1)>>
    ELSE <<"None">>

Rfind(s) ==
    IF \E i \in 1..Len(s) : s[i] = " "
    THEN <<"Some", ByteOffset(s, (CHOOSE i \in 1..Len(s) :
                        s[i] = " " /\ \A j \in (i + 1)..Len(s) : s[j] # " ") - 1)>>
    ELSE <<"None">>

\* what an operation comes to: it returns, or it panics, with the buffer and
\* the cursor as it leaves them
EdOk(b, c) == [st |-> "ok", buffer |-> b, cursor |-> c]
EdPanic(b, c) == [st |-> "panic", buffer |-> b, cursor |-> c]

\* String::insert panics unless the index is a character boundary
insert_char(b, c, insertion) ==
    IF ~IsCharBoundary(b, c) THEN EdPanic(b, c)
    ELSE LET at == CharIndexAt(b, c)
             inserted == SubSeq(b, 1, at) \o <<insertion>> \o SubSeq(b, at + 1, Len(b))
         IN IF UsizeLess(ByteLen(inserted), c + 1) /\ overflowChecks
            THEN EdPanic(inserted, c + 1)
            ELSE EdOk(inserted, c + 1)

flush(b, c) == EdOk(<<>>, 0)

move_left(b, c, n) ==
    IF c # 0
    THEN (IF UsizeLess(c, n) /\ overflowChecks THEN EdPanic(b, c) ELSE EdOk(b, c - n))
    ELSE EdOk(b, c)

move_right(b, c, n) ==
    IF UsizeLess(c, ByteLen(b))
    THEN (IF AddOverflows(c, n) /\ overflowChecks THEN EdPanic(b, c) ELSE EdOk(b, c + n))
    ELSE EdOk(b, c)

delete_left(b, c) ==
    IF c # 0
    THEN LET deleted == TakeChars(b, c - 1) \o SkipChars(b, c)
         IN IF UsizeLess(ByteLen(deleted), c - 1) /\ overflowChecks
            THEN EdPanic(deleted, c - 1)
            ELSE EdOk(deleted, c - 1)
    ELSE EdOk(b, c)

delete_right(b, c) ==
    IF UsizeLess(c, ByteLen(b))
    THEN LET deleted == TakeChars(b, c) \o SkipChars(b, c + 1)
         IN IF UsizeLess(ByteLen(deleted), c) /\ overflowChecks
            THEN EdPanic(deleted, c)
            ELSE EdOk(deleted, c)
    ELSE EdOk(b, c)

enter(b, c) == flush(b, c)

\* `idx as usize + 1` is usize::MAX + 1 when rfind found no space
word_left(b, c) ==
    IF c # 0
    THEN LET before == StrSlice(b, 0, c - 1)
             upto == StrSlice(b, 0, c)
             found == Rfind(before[2])
             idx == IF found[1] = "Some" THEN found[2] ELSE -1
         IN IF before[1] = "Panic" \/ upto[1] = "Panic" THEN EdPanic(b, c)
            ELSE IF AddOverflows(idx, 1) /\ overflowChecks THEN EdPanic(b, c)
            ELSE LET moved == move_left(b, c, c - (idx + 1))
                 IN IF moved.st = "panic" THEN moved ELSE EdOk(b, idx + 1)
    ELSE EdOk(b, c)

word_right(b, c) ==
    IF UsizeLess(c, ByteLen(b))
    THEN LET after == StrSlice(b, c, ByteLen(b))
             found == Find(after[2])
             idx == IF found[1] = "Some" THEN found[2] ELSE ByteLen(after[2]) - 1
         IN IF after[1] = "Panic" THEN EdPanic(b, c)
            ELSE move_right(b, c, 1 + idx)
    ELSE EdOk(b, c)

move_start(b, c) == move_left(b, c, c)

move_end(b, c) ==
    IF UsizeLess(ByteLen(b), c) /\ overflowChecks THEN EdPanic(b, c)
    ELSE move_right(b, c, ByteLen(b) - c)

delete_line(b, c) == LET flushed == flush(b, c) IN move_start(flushed.buffer, flushed.cursor)

delete_from_cursor(b, c) == EdOk(TakeChars(b, c), c)

(* The editor's specification: main creates one LineEditor, and the        *)
(* on_data callback runs one operation on it for every key event, until an *)
(* operation panics.                                                       *)

InitEdit ==
    /\ EditorIdle
    /\ ParserIdle
    /\ LexerIdle
    /\ heap = <<>>
    /\ result = [st |-> "none", v |-> <<"Null">>]
    /\ line = <<>>
    /\ prevHeap = <<>>
    /\ prevStatus = "none"
    /\ nlines = 0
    /\ overflowChecks \in BOOLEAN

\* LineEditor::new(term, PROMPT)
LineEditorNew ==
    /\ estatus = "idle"
    /\ buffer' = <<>>
    /\ cursor' = 0
    /\ estatus' = "ready"
    /\ operation' = "new"
    /\ UNCHANGED <<parserVars, evalVars, lexVars>>

\* the callback running the operation `name`, which comes to `outcome`
Ran(name, outcome) ==
    /\ estatus = "ready"
    /\ buffer' = outcome.buffer
    /\ cursor' = outcome.cursor
    /\ estatus' = IF outcome.st = "panic" THEN "panicked" ELSE "ready"
    /\ operation' = name
    /\ UNCHANGED <<parserVars, evalVars, lexVars>>

\* KeyCode::Char(c) without modifier
InsertChar ==
    /\ Len(buffer) < MaxBuffer
    /\ \E c \in KeyChars : Ran("insert_char", insert_char(buffer, cursor, c))

\* Left, Ctrl-b
MoveLeft == Ran("move_left", move_left(buffer, cursor, 1))

\* Right, Ctrl-f
MoveRight == Ran("move_right", move_right(buffer, cursor, 1))

\* Alt-b, Alt-Left
WordLeft == Ran("word_left", word_left(buffer, cursor))

\* Alt-f, Alt-Right
WordRight == Ran("word_right", word_right(buffer, cursor))

\* Home, Ctrl-a
MoveStart == Ran("move_start", move_start(buffer, cursor))

\* End, Ctrl-e
MoveEnd == Ran("move_end", move_end(buffer, cursor))

\* Backspace, Ctrl-h
DeleteLeft == Ran("delete_left", delete_left(buffer, cursor))

\* Delete, Ctrl-d
DeleteRight == Ran("delete_right", delete_right(buffer, cursor))

\* Ctrl-u
DeleteLine == Ran("delete_line", delete_line(buffer, cursor))

\* Ctrl-k
DeleteFromCursor == Ran("delete_from_cursor", delete_from_cursor(buffer, cursor))

\* Enter, after the line has been evaluated
Enter == Ran("enter", enter(buffer, cursor))

NextEdit ==
    \/ LineEditorNew
    \/ InsertChar
    \/ MoveLeft
    \/ MoveRight
    \/ WordLeft
    \/ WordRight
    \/ MoveStart
    \/ MoveEnd
    \/ DeleteLeft
    \/ DeleteRight
    \/ DeleteLine
    \/ DeleteFromCursor
    \/ Enter

SpecEdit == InitEdit /\ [][NextEdit]_vars

\* C30: whatever keys were pressed, no operation of the LineEditor has
\* panicked, the cursor lies between 0 and the length of the buffer on a
\* character boundary, and after enter the buffer is empty and the cursor 0.
C30_CursorStaysInBuffer ==
    /\ estatus # "panicked"
    /\ estatus = "ready" =>
          /\ 0 <= cursor
          /\ cursor <= ByteLen(buffer)
          /\ IsCharBoundary(buffer, cursor)
    /\ (estatus = "ready" /\ operation = "enter") => (buffer = <<>> /\ cursor = 0)

====
